---- MODULE Spec2Model ----
(***************************************************************************)
(* Orchestration core of pdf_digest: the Agno extraction retry loop, the   *)
(* JSON recovery, the result validator and the Redis-backed content cache. *)
(*                                                                         *)
(* Texts (agent answers, serialized cache values, page texts) are          *)
(* sequences of lexemes: every lexeme stands for an indivisible run of     *)
(* characters ("{", "\"", "trades", "100", ...).  Offsets are              *)
(* 0-based as in Python, counted in lexemes; find/rfind return -1 when the *)
(* pattern is absent.                                                      *)
(***************************************************************************)
EXTENDS Integers, Sequences, FiniteSets, TLC

(***************************************************************************)
(* Python str operations on texts                                          *)
(***************************************************************************)
Whitespace == {" ", "\n"}

\* s[a:b] for 0 <= a, b (Python slice, b exclusive, clipped to the text)
Slice(s, a, b) ==
  LET hi == IF b > Len(s) THEN Len(s) ELSE b
  IN  IF a >= hi THEN << >> ELSE SubSeq(s, a + 1, hi)

\* s.startswith(p)
StartsWith(s, p) == Len(s) >= Len(p) /\ SubSeq(s, 1, Len(p)) = p

\* s.endswith(p)
EndsWith(s, p) == Len(s) >= Len(p) /\ SubSeq(s, Len(s) - Len(p) + 1, Len(s)) = p

\* pattern p occurs in s at 0-based offset i
OccursAt(s, p, i) == i >= 0 /\ i + Len(p) <= Len(s) /\ SubSeq(s, i + 1, i + Len(p)) = p

\* s.find(p, from)
Find(s, p, from) ==
  LET hits == {i \in from..(Len(s) - Len(p)) : OccursAt(s, p, i)}
  IN  IF hits = {} THEN -1 ELSE CHOOSE i \in hits : \A j \in hits : i <= j

\* s.rfind(p)
RFind(s, p) ==
  LET hits == {i \in 0..(Len(s) - Len(p)) : OccursAt(s, p, i)}
  IN  IF hits = {} THEN -1 ELSE CHOOSE i \in hits : \A j \in hits : i >= j

\* p in s
Contains(s, p) == Find(s, p, 0) >= 0

\* s.count(p) for a one-lexeme pattern
Count(s, p) == Cardinality({i \in 0..(Len(s) - Len(p)) : OccursAt(s, p, i)})

\* s.strip()
Strip(s) ==
  LET keep == {i \in 1..Len(s) : s[i] \notin Whitespace}
  IN  IF keep = {} THEN << >>
      ELSE SubSeq(s, CHOOSE i \in keep : \A j \in keep : i <= j,
                     CHOOSE i \in keep : \A j \in keep : i >= j)

\* re.sub(r'//.*?\n', '\n', s): every "//" up to (not including) the next
\* line break is removed; a "//" with no line break after it is left alone.
RECURSIVE StripComments(_)
StripComments(s) ==
  LET c == Find(s, <<"//">>, 0)
      n == IF c < 0 THEN -1 ELSE Find(s, <<"\n">>, c + 1)
  IN  IF c < 0 \/ n < 0 THEN s
      ELSE Slice(s, 0, c) \o <<"\n">> \o StripComments(Slice(s, n + 1, Len(s)))

(***************************************************************************)
(* JSON values.  int and float literals are told apart as json.loads does; *)
(* a float is kept in hundredths.                                          *)
(***************************************************************************)
Q == "\""

IntLits == {"0", "1", "2", "100", "200", "-1"}
FloatLits ==
  {"7.28", "728.00", "728.0", "15.77", "-1.0", "0.0", "42.5", "4250.0", "65.3",
   "13060.0", "15.75"}

IntOf(tok) ==
  CASE tok = "0" -> 0 [] tok = "1" -> 1 [] tok = "2" -> 2
    [] tok = "100" -> 100 [] tok = "200" -> 200 [] tok = "-1" -> -1

HundredthsOf(tok) ==
  CASE tok = "7.28" -> 728 [] tok = "728.00" -> 72800 [] tok = "728.0" -> 72800
    [] tok = "15.77" -> 1577 [] tok = "-1.0" -> -100 [] tok = "0.0" -> 0
    [] tok = "42.5" -> 4250 [] tok = "4250.0" -> 425000 [] tok = "65.3" -> 6530
    [] tok = "13060.0" -> 1306000 [] tok = "15.75" -> 1575

JInt(n) == [t |-> "int", n |-> n]
JFloat(h) == [t |-> "float", n |-> h]
JStr(s) == [t |-> "str", s |-> s]
JNull == [t |-> "null"]
JBool(b) == [t |-> "bool", b |-> b]
JArr(items) == [t |-> "arr", items |-> items]
JObj(keys, vals) == [t |-> "obj", keys |-> keys, vals |-> vals]

\* dict[k] = v : an existing key keeps its place, a new key goes last
DictSet(d, k, v) ==
  IF \E i \in 1..Len(d.keys) : d.keys[i] = k
    THEN LET i == CHOOSE j \in 1..Len(d.keys) : d.keys[j] = k
         IN  JObj(d.keys, [d.vals EXCEPT ![i] = v])
    ELSE JObj(Append(d.keys, k), Append(d.vals, v))

\* k in d  (k a plain word)
HasKey(d, k) == \E i \in 1..Len(d.keys) : d.keys[i] = <<k>>

\* d[k]
Get(d, k) == d.vals[CHOOSE i \in 1..Len(d.keys) : d.keys[i] = <<k>>]

\* json's WHITESPACE.match(s, i).end()
RECURSIVE SkipWs(_, _)
SkipWs(s, i) == IF i < Len(s) /\ s[i + 1] \in Whitespace THEN SkipWs(s, i + 1) ELSE i

JFail == [ok |-> FALSE]
JOk(v, pos) == [ok |-> TRUE, val |-> v, pos |-> pos]

\* py_scanstring: s[i] is the opening quote; a raw line break inside the
\* string is an invalid control character.
ScanString(s, i) ==
  LET close == Find(s, <<Q>>, i + 1)
  IN  IF close < 0 THEN JFail
      ELSE IF \E j \in (i + 1)..(close - 1) : s[j + 1] = "\n" THEN JFail
      ELSE JOk(Slice(s, i + 1, close), close + 1)

RECURSIVE ScanOnce(_, _), ScanArray(_, _, _), ScanObject(_, _, _)

\* scanner.scan_once(s, i)
ScanOnce(s, i) ==
  IF i >= Len(s) THEN JFail
  ELSE LET ch == s[i + 1] IN
    CASE ch = Q -> LET r == ScanString(s, i)
                   IN  IF r.ok THEN JOk(JStr(r.val), r.pos) ELSE JFail
      [] ch = "{" ->
           LET j == SkipWs(s, i + 1)
           IN  IF j < Len(s) /\ s[j + 1] = "}" THEN JOk(JObj(<< >>, << >>), j + 1)
               ELSE ScanObject(s, j, JObj(<< >>, << >>))
      [] ch = "[" ->
           LET j == SkipWs(s, i + 1)
           IN  IF j < Len(s) /\ s[j + 1] = "]" THEN JOk(JArr(<< >>), j + 1)
               ELSE ScanArray(s, j, << >>)
      [] ch = "null" -> JOk(JNull, i + 1)
      [] ch = "true" -> JOk(JBool(TRUE), i + 1)
      [] ch = "false" -> JOk(JBool(FALSE), i + 1)
      [] ch \in IntLits -> JOk(JInt(IntOf(ch)), i + 1)
      [] ch \in FloatLits -> JOk(JFloat(HundredthsOf(ch)), i + 1)
      [] OTHER -> JFail

\* JSONArray: s[i] starts the next item
ScanArray(s, i, acc) ==
  LET v == ScanOnce(s, i) IN
  IF ~v.ok THEN JFail
  ELSE LET j == SkipWs(s, v.pos)
           items == Append(acc, v.val)
       IN  IF j >= Len(s) THEN JFail
           ELSE IF s[j + 1] = "]" THEN JOk(JArr(items), j + 1)
           ELSE IF s[j + 1] = "," THEN ScanArray(s, SkipWs(s, j + 1), items)
           ELSE JFail

\* JSONObject: s[i] must open the next member's key
ScanObject(s, i, acc) ==
  IF i >= Len(s) \/ s[i + 1] # Q THEN JFail
  ELSE LET k == ScanString(s, i) IN
    IF ~k.ok THEN JFail
    ELSE LET c == SkipWs(s, k.pos) IN
      IF c >= Len(s) \/ s[c + 1] # ":" THEN JFail
      ELSE LET v == ScanOnce(s, SkipWs(s, c + 1)) IN
        IF ~v.ok THEN JFail
        ELSE LET j == SkipWs(s, v.pos)
                 d == DictSet(acc, k.val, v.val)
             IN  IF j >= Len(s) THEN JFail
                 ELSE IF s[j + 1] = "}" THEN JOk(d, j + 1)
                 ELSE IF s[j + 1] = "," THEN ScanObject(s, SkipWs(s, j + 1), d)
                 ELSE JFail

\* json.loads(s): [ok |-> FALSE] stands for json.JSONDecodeError
json_loads(s) ==
  LET r == ScanOnce(s, SkipWs(s, 0))
  IN  IF ~r.ok THEN JFail
      ELSE IF SkipWs(s, r.pos) # Len(s) THEN JFail
      ELSE [ok |-> TRUE, val |-> r.val]


\* int.__repr__ / float.__repr__ of the numbers above
IntRepr(n) ==
  CASE n = 0 -> "0" [] n = 1 -> "1" [] n = 2 -> "2" [] n = 100 -> "100"
    [] n = 200 -> "200" [] n = -1 -> "-1"

FloatRepr(h) ==
  CASE h = 728 -> "7.28" [] h = 72800 -> "728.0" [] h = 1577 -> "15.77"
    [] h = -100 -> "-1.0" [] h = 0 -> "0.0"
    [] h = 4250 -> "42.5" [] h = 425000 -> "4250.0" [] h = 6530 -> "65.3"
    [] h = 1306000 -> "13060.0" [] h = 1575 -> "15.75"

RECURSIVE json_dumps(_), DumpItems(_), DumpMembers(_, _)

\* ", ".join(dumps(v) for v in items)
DumpItems(items) ==
  IF items = << >> THEN << >>
  ELSE json_dumps(Head(items))
       \o (IF Len(items) > 1 THEN <<",", " ">> ELSE << >>)
       \o DumpItems(Tail(items))

\* ", ".join('"k": ' + dumps(v) for k, v in d.items())
DumpMembers(keys, vals) ==
  IF keys = << >> THEN << >>
  ELSE <<Q>> \o Head(keys) \o <<Q, ":", " ">> \o json_dumps(Head(vals))
       \o (IF Len(keys) > 1 THEN <<",", " ">> ELSE << >>)
       \o DumpMembers(Tail(keys), Tail(vals))

\* json.dumps(v, ensure_ascii=False)
json_dumps(v) ==
  CASE v.t = "obj" -> <<"{">> \o DumpMembers(v.keys, v.vals) \o <<"}">>
    [] v.t = "arr" -> <<"[">> \o DumpItems(v.items) \o <<"]">>
    [] v.t = "str" -> <<Q>> \o v.s \o <<Q>>
    [] v.t = "int" -> <<IntRepr(v.n)>>
    [] v.t = "float" -> <<FloatRepr(v.n)>>
    [] v.t = "null" -> <<"null">>
    [] v.t = "bool" -> <<IF v.b THEN "true" ELSE "false">>

(***************************************************************************)
(* AgnoService._extract_json_from_response                                 *)
(***************************************************************************)
\* "~~~" is the lexeme of the three-backquote code fence of markdown
Fence == <<"~~~">>
FenceJson == <<"~~~", "json">>
SnippetLen == 200

Recovered(s) == [ok |-> TRUE, str |-> s]

\* raise ValueError(f"... Conteudo: {content[:200]}...")
RecoveryError(content) ==
  [ok |-> FALSE, err |-> [type |-> "ValueError", msg |-> Slice(content, 0, SnippetLen)]]

\* Tentativa 2: JSON em bloco de codigo markdown (fence tagged json)
FromJsonFence(content) ==
  LET start == Find(content, FenceJson, 0) + Len(FenceJson)
      end == Find(content, Fence, start)
      json_str == Strip(Slice(content, start, end))
  IN  IF Contains(content, FenceJson) /\ end > start /\ json_str # << >>
        THEN Recovered(StripComments(json_str))
        ELSE [ok |-> FALSE]

\* Tentativa 3: JSON em bloco de codigo generico (any fence)
FromAnyFence(content) ==
  LET start0 == Find(content, Fence, 0) + Len(Fence)
      newline_pos == Find(content, <<"\n">>, start0)
      start == IF newline_pos > start0 THEN newline_pos + 1 ELSE start0
      end == Find(content, Fence, start)
      json_str == Strip(Slice(content, start, end))
  IN  IF Contains(content, Fence) /\ end > start /\ StartsWith(json_str, <<"{">>)
        THEN Recovered(StripComments(json_str))
        ELSE [ok |-> FALSE]

\* Tentativa 4: from the first { to the last }
FromBraces(content) ==
  LET first_brace == Find(content, <<"{">>, 0)
      last_brace == RFind(content, <<"}">>)
      json_str == Slice(content, first_brace, last_brace + 1)
  IN  IF first_brace >= 0 /\ last_brace > first_brace
         /\ Count(json_str, <<"{">>) > 0 /\ Count(json_str, <<"}">>) > 0
        THEN Recovered(StripComments(json_str))
        ELSE [ok |-> FALSE]

_extract_json_from_response(raw) ==
  LET content == Strip(raw) IN
  IF StartsWith(content, <<"{">>) /\ EndsWith(content, <<"}">>)
    THEN Recovered(StripComments(content))
  ELSE IF FromJsonFence(content).ok THEN FromJsonFence(content)
  ELSE IF FromAnyFence(content).ok THEN FromAnyFence(content)
  ELSE IF FromBraces(content).ok THEN FromBraces(content)
  ELSE RecoveryError(content)

(***************************************************************************)
(* AgnoService._validate_extraction_result and its helpers                 *)
(***************************************************************************)
\* isinstance(v, int): bool is a subclass of int
IsInt(v) == v.t \in {"int", "bool"}

\* isinstance(v, (int, float))
IsNumber(v) == v.t \in {"int", "float", "bool"}

\* the number compared with 0 (a float in hundredths keeps its sign)
NumVal(v) == IF v.t = "bool" THEN (IF v.b THEN 1 ELSE 0) ELSE v.n

TradeRequired ==
  <<"orderNumber", "tradeDate", "operationType", "marketType", "market",
    "ticker", "quantity", "price", "totalValue">>

FeeRequired == <<"orderNumber", "totalFees">>

\* v == 'w' for a JSON value v
IsWord(v, w) == v.t = "str" /\ v.s = <<w>>

\* TRUE iff _validate_trade returns without raising
_validate_trade(trade) ==
  /\ trade.t = "obj"
  /\ \A i \in 1..Len(TradeRequired) : HasKey(trade, TradeRequired[i])
  /\ IsWord(Get(trade, "operationType"), "C") \/ IsWord(Get(trade, "operationType"), "V")
  /\ IsWord(Get(trade, "market"), "BOVESPA") \/ IsWord(Get(trade, "market"), "BMF")
  /\ IsInt(Get(trade, "quantity")) /\ NumVal(Get(trade, "quantity")) > 0
  /\ IsNumber(Get(trade, "price")) /\ NumVal(Get(trade, "price")) > 0
  /\ IsNumber(Get(trade, "totalValue")) /\ NumVal(Get(trade, "totalValue")) > 0

\* TRUE iff _validate_fee returns without raising
_validate_fee(fee) ==
  /\ fee.t = "obj"
  /\ \A i \in 1..Len(FeeRequired) : HasKey(fee, FeeRequired[i])
  /\ IsNumber(Get(fee, "totalFees")) /\ NumVal(Get(fee, "totalFees")) >= 0

\* TRUE iff _validate_extraction_result returns (the result itself, unchanged);
\* FALSE iff it raises ConversionError
_validate_extraction_result(result) ==
  /\ result.t = "obj"
  /\ HasKey(result, "trades") /\ HasKey(result, "fees")
  /\ Get(result, "trades").t = "arr"
  /\ \A i \in 1..Len(Get(result, "trades").items) :
        _validate_trade(Get(result, "trades").items[i])
  /\ Get(result, "fees").t = "arr"
  /\ \A i \in 1..Len(Get(result, "fees").items) :
        _validate_fee(Get(result, "fees").items[i])

(***************************************************************************)
(* Input documents                                                         *)
(***************************************************************************)
max_content_length == 16777216

\* str.lower(), lexeme by lexeme
LowerLexeme(w) ==
  CASE w = ".PDF" -> ".pdf"
    [] w = "Cannot process" -> "cannot process"
    [] w \in {"NOTA DE NEGOCIACAO", "Nota de Negociacao"} -> "nota de negociacao"
    [] OTHER -> w

Lower(s) == [i \in 1..Len(s) |-> LowerLexeme(s[i])]

\* A brokerage note of one page with one operation line
NotaOne ==
  [path |-> <<"nota_one", ".pdf">>, isfile |-> TRUE, size |-> 2048,
   bytes |-> <<"%PDF-", "1.4", "one">>, pypdf_raises |-> FALSE,
   pages |-> << <<"1-BOVESPA", " ", "C", " ", "VISTA", " ", "SUZANO">> >>]

\* A note of two pages, one operation line on each
NotaTwo ==
  [path |-> <<"nota_two", ".PDF">>, isfile |-> TRUE, size |-> 4096,
   bytes |-> <<"%PDF-", "1.4", "two">>, pypdf_raises |-> FALSE,
   pages |-> << <<"1-BOVESPA", " ", "C", " ", "VISTA", " ", "AMBEV">>,
               <<"1-BOVESPA", " ", "V", " ", "VISTA", " ", "SUZANO">> >>]

\* A scanned note: a page without a text layer
NotaScan ==
  [path |-> <<"scan", ".pdf">>, isfile |-> TRUE, size |-> 8192,
   bytes |-> <<"%PDF-", "1.7", "scan">>, pypdf_raises |-> FALSE,
   pages |-> << << >> >>]

\* A PDF that pypdf cannot open
NotaEncrypted ==
  [path |-> <<"locked", ".pdf">>, isfile |-> TRUE, size |-> 1024,
   bytes |-> <<"%PDF-", "1.6", "locked">>, pypdf_raises |-> TRUE,
   pages |-> << >>]

\* An upload that is no PDF
NotPdf ==
  [path |-> <<"page", ".pdf">>, isfile |-> TRUE, size |-> 512,
   bytes |-> <<"<html>">>, pypdf_raises |-> TRUE, pages |-> << >>]

\* A path that names no file
Missing ==
  [path |-> <<"gone", ".pdf">>, isfile |-> FALSE, size |-> 0,
   bytes |-> << >>, pypdf_raises |-> TRUE, pages |-> << >>]

\* A note saved under another extension
NotaTxt ==
  [path |-> <<"nota", ".txt">>, isfile |-> TRUE, size |-> 2048,
   bytes |-> <<"%PDF-", "1.4", "txt">>, pypdf_raises |-> FALSE,
   pages |-> << <<"1-BOVESPA", " ", "C", " ", "VISTA", " ", "SUZANO">> >>]

\* A file of no bytes
EmptyPdf ==
  [path |-> <<"empty", ".pdf">>, isfile |-> TRUE, size |-> 0,
   bytes |-> << >>, pypdf_raises |-> TRUE, pages |-> << >>]

\* A PDF of one byte more than settings.max_content_length
HugePdf ==
  [path |-> <<"huge", ".pdf">>, isfile |-> TRUE, size |-> max_content_length + 1,
   bytes |-> <<"%PDF-", "1.7", "huge">>, pypdf_raises |-> FALSE,
   pages |-> << <<"1-BOVESPA", " ", "C", " ", "VISTA", " ", "SUZANO">> >>]

\* f.read(8): "%PDF-" and the version are the first eight characters
Header(f) == Slice(f.bytes, 0, 2)

\* TRUE iff validate_pdf returns True; FALSE iff it raises ValidationError
validate_pdf(f) ==
  /\ f.isfile
  /\ EndsWith(Lower(f.path), <<".pdf">>)
  /\ f.size # 0
  /\ ~(f.size > max_content_length)
  /\ StartsWith(Header(f), <<"%PDF-">>)

\* hashlib.sha256 over the file's bytes: distinct contents, distinct digests
calculate_file_hash(f) ==
  CASE f.bytes = NotaOne.bytes -> "3f9a"
    [] f.bytes = NotaTwo.bytes -> "c41d"
    [] f.bytes = NotaScan.bytes -> "7be2"
    [] f.bytes = NotaEncrypted.bytes -> "a055"
    [] f.bytes = NotPdf.bytes -> "e6b0"
    [] f.bytes = NotaTxt.bytes -> "91c7"
    [] f.bytes = HugePdf.bytes -> "d2f8"
    [] f.bytes = << >> -> "e3b0"

PYPDF_AVAILABLE == TRUE

RECURSIVE PagesText(_, _, _)
\* text += f"\n=== PAGINA {n} de {total} ===\n{page_text}\n" for every page
PagesText(pages, n, total) ==
  IF n > Len(pages) THEN << >>
  ELSE <<"\n", "=== PAGINA", " ", "de", " ", "===", "\n">> \o pages[n] \o <<"\n">>
       \o PagesText(pages, n + 1, total)

\* debug_pdf_content(file_path, max_chars=None)['pypdf']
debug_pdf_content(f) ==
  IF ~PYPDF_AVAILABLE THEN <<"pypdf nao disponivel">>
  ELSE IF f.pypdf_raises THEN <<"ERRO", ": ", "cannot read">>
  ELSE PagesText(f.pages, 1, Len(f.pages))

\* lines 300-307: the raw text handed to the prompts, << >> standing for None
FullPdfContent(f) ==
  LET full_pdf_content == debug_pdf_content(f)
  IN  IF full_pdf_content # << >> /\ ~StartsWith(full_pdf_content, <<"ERRO">>)
        THEN full_pdf_content ELSE << >>

(***************************************************************************)
(* Answers of the external agent (agent.run), written as compact JSON text *)
(***************************************************************************)
TStr(w) == <<Q, w, Q>>
TPair(k, v) == TStr(k) \o <<":">> \o v

RECURSIVE TJoin(_)
TJoin(parts) ==
  IF parts = << >> THEN << >>
  ELSE Head(parts) \o (IF Len(parts) > 1 THEN <<",">> ELSE << >>) \o TJoin(Tail(parts))

TObj(members) == <<"{">> \o TJoin(members) \o <<"}">>
TArr(items) == <<"[">> \o TJoin(items) \o <<"]">>

TradeText(ticker, quantity) ==
  TObj(<<TPair("orderNumber", TStr("5187530")), TPair("tradeDate", TStr("2014-05-08")),
         TPair("operationType", TStr("C")), TPair("marketType", TStr("VISTA")),
         TPair("market", TStr("BOVESPA")), TPair("ticker", TStr(ticker)),
         TPair("quantity", <<quantity>>), TPair("price", <<"7.28">>),
         TPair("totalValue", <<"728.00">>)>>)

FeeText == TObj(<<TPair("orderNumber", TStr("5187530")), TPair("totalFees", <<"15.77">>)>>)

ResultText(trades, fees) ==
  TObj(<<TPair("trades", TArr(trades)), TPair("fees", TArr(fees))>>)

Answer(id, content) == [id |-> id, raises |-> FALSE, content |-> content]

\* '{"trades":[],"fees":[]}'
AnsEmpty == Answer("empty", ResultText(<< >>, << >>))
\* one valid trade and its fee
AnsOne == Answer("one", ResultText(<<TradeText("SUZANO", "100")>>, <<FeeText>>))
\* two valid trades and a fee
AnsTwo ==
  Answer("two", ResultText(<<TradeText("AMBEV", "100"), TradeText("SUZANO", "100")>>,
                           <<FeeText>>))
\* a fee but no trade
AnsFeesOnly == Answer("fees_only", ResultText(<< >>, <<FeeText>>))
\* one valid trade and one with quantity 0
AnsMixed ==
  Answer("mixed", ResultText(<<TradeText("SUZANO", "100"), TradeText("AMBEV", "0")>>,
                             <<FeeText>>))
\* valid data followed by an empty sub-structure
AnsNoted ==
  Answer("noted",
         TObj(<<TPair("trades", TArr(<<TradeText("SUZANO", "100")>>)),
                TPair("fees", TArr(<<FeeText>>)),
                TPair("pending", ResultText(<< >>, << >>))>>))
\* an object without 'fees'
AnsNoFees == Answer("no_fees", TObj(<<TPair("trades", TArr(<< >>))>>))
\* 'trades' is null
AnsNull == Answer("null_trades", TObj(<<TPair("trades", <<"null">>), TPair("fees", TArr(<< >>))>>))
\* braces around something that is no JSON
AnsBroken == Answer("broken", <<"{", Q, "trades", Q, ":", "[", "}">>)
\* free text without braces
AnsRefusal == Answer("refusal", <<"I", " ", "Cannot process", " ", "the", " ", "file">>)
AnsChatter == Answer("chatter", <<"no", " ", "operations", " ", "found">>)
\* agent.run raises
AnsRaise == [id |-> "raise", raises |-> TRUE, content |-> << >>, exc |-> "Exception"]
\* agent.run raises a ValueError, which the first except clause catches
AnsRaiseValue ==
  [id |-> "raise_value", raises |-> TRUE, content |-> << >>, exc |-> "ValueError"]

(***************************************************************************)
(* Python values                                                           *)
(***************************************************************************)
PyNone == [t |-> "none"]
NoKey == << >>
NoError == [type |-> "none"]

\* a truth test that takes an object of empty lists for nothing
TruthyWithData(v) ==
  CASE v.t = "obj" -> \E i \in 1..Len(v.vals) : v.vals[i] # [t |-> "arr", items |-> << >>]
    [] v.t = "arr" -> v.items # << >>
    [] v.t = "str" -> v.s # << >>
    [] v.t \in {"int", "float"} -> v.n # 0
    [] v.t = "bool" -> v.b
    [] OTHER -> FALSE

\* bool(v) of a decoded JSON value
Truthy(v) ==
  CASE v.t = "obj" -> v.keys # << >>
    [] v.t = "arr" -> v.items # << >>
    [] v.t = "str" -> v.s # << >>
    [] v.t \in {"int", "float"} -> v.n # 0
    [] v.t = "bool" -> v.b
    [] OTHER -> FALSE

(***************************************************************************)
(* AgnoService._extract_with_agno_agent: one pass of the retry loop        *)
(***************************************************************************)
max_retries == 3
SimplePromptChars == 3000

_create_json_extraction_prompt(f, pdf_content) ==
  [tier |-> "json_extraction", path |-> f.path, pdf |-> pdf_content]

_create_simple_extraction_prompt(f, pdf_content) ==
  [tier |-> "simple", path |-> f.path, pdf |-> Slice(pdf_content, 0, SimplePromptChars)]

_create_fallback_extraction_prompt(f, pdf_content) ==
  [tier |-> "fallback", path |-> f.path, pdf |-> << >>]

\* a loop that sends the first prompt on every attempt
PromptForFirstTier(attempt, f, full_pdf_content) ==
  _create_json_extraction_prompt(f, full_pdf_content)

\* lines 314-319
PromptFor(attempt, f, full_pdf_content) ==
  IF attempt = 0 THEN _create_json_extraction_prompt(f, full_pdf_content)
  ELSE IF attempt = 1 THEN _create_simple_extraction_prompt(f, full_pdf_content)
  ELSE _create_fallback_extraction_prompt(f, full_pdf_content)

PyError(type, msg, attempt) == [type |-> type, msg |-> msg, attempt |-> attempt]
ConversionError(msg, cause) == [type |-> "ConversionError", msg |-> msg, cause |-> cause]
ValidationError(msg) == [type |-> "ValidationError", msg |-> msg]

\* What one pass of the loop body does: `continue`, `return result` or `raise
\* error`; caught is the exception an except clause bound to last_error
\* (NoError when no except clause ran).
Continue(caught) ==
  [kind |-> "continue", result |-> PyNone, caught |-> caught, error |-> NoError]
Return(result) ==
  [kind |-> "return", result |-> result, caught |-> NoError, error |-> NoError]
Raise(error, caught) ==
  [kind |-> "raise", result |-> PyNone, caught |-> caught, error |-> error]

GaveUpPhrases ==
  {"cannot directly parse", "cannot process", "nao consigo processar",
   "environment", "local development", "install"}

\* a handler that gives up one attempt early
OnValueErrorEarly(attempt, e) ==
  IF attempt < max_retries - 2 THEN Continue(e)
  ELSE Raise(ConversionError("Falha ao parsear resposta do Agno", e), e)

\* except (json.JSONDecodeError, ValueError) as e:  lines 375-393
OnValueError(attempt, e) ==
  IF attempt < max_retries - 1 THEN Continue(e)
  ELSE IF \E i \in 1..Len(e.msg) : LowerLexeme(e.msg[i]) \in GaveUpPhrases
    THEN Raise(ConversionError("Agno nao conseguiu processar o arquivo PDF", e), e)
    ELSE Raise(ConversionError("Falha ao parsear resposta do Agno", e), e)

\* a handler that lets the exception of the last attempt through as it is
OnExceptionReraised(attempt, e) ==
  IF attempt = max_retries - 1 THEN Raise(e, e) ELSE Continue(e)

\* except Exception as e:  lines 395-399 (no continue: the loop goes on by itself)
OnException(attempt, e) ==
  IF attempt = max_retries - 1
    THEN Raise(ConversionError("Falha na extracao com Agno", e), e)
    ELSE Continue(e)

MarkerTrades == <<"trades", Q, ":", "[", "]">>
MarkerFees == <<"fees", Q, ":", "[", "]">>

\* len(v): a TypeError for what has no length
HasLen(v) == v.t \in {"arr", "obj", "str"}
PyLen(v) ==
  CASE v.t = "arr" -> Len(v.items) [] v.t = "obj" -> Len(v.keys) [] v.t = "str" -> Len(v.s)

\* an acceptance that retries only when both arrays are empty
AcceptUnlessBothEmpty(attempt, result, full_pdf_content) ==
  IF result.t # "obj" \/ ~HasKey(result, "trades") \/ ~HasKey(result, "fees")
    THEN Raise(ConversionError("Falha ao parsear resposta do Agno", NoError), NoError)
  ELSE IF ~HasLen(Get(result, "trades")) \/ ~HasLen(Get(result, "fees"))
    THEN Raise(ConversionError("Falha na extracao com Agno", NoError), NoError)
  ELSE IF PyLen(Get(result, "trades")) = 0 /\ PyLen(Get(result, "fees")) = 0
          /\ attempt < max_retries - 1
    THEN Continue(NoError)
  ELSE Return(result)

\* lines 348-373, result being the decoded object
Accept(attempt, result, full_pdf_content) ==
  IF result.t # "obj" \/ ~HasKey(result, "trades") \/ ~HasKey(result, "fees")
    THEN OnValueError(attempt, PyError("ValueError", <<"Estrutura JSON invalida">>, attempt))
  ELSE IF ~HasLen(Get(result, "trades")) \/ ~HasLen(Get(result, "fees"))
    THEN OnException(attempt, PyError("TypeError", <<"has no len()">>, attempt))
  ELSE
    LET trades_count == PyLen(Get(result, "trades"))
        fees_count == PyLen(Get(result, "fees"))
        expected_trades == IF full_pdf_content # << >>
                             THEN Count(full_pdf_content, <<"1-BOVESPA">>) ELSE 1
    IN  IF trades_count < expected_trades /\ attempt < max_retries - 1
          THEN Continue(NoError)
        ELSE IF trades_count = 0 /\ fees_count = 0 /\ attempt < max_retries - 1
          THEN Continue(NoError)
        ELSE Return(result)

\* a loop body that takes the first answer that decodes
DigestAtOnce(attempt, content, full_pdf_content) ==
  IF ~_extract_json_from_response(content).ok
    THEN Continue(PyError("ValueError", content, attempt))
  ELSE IF ~json_loads(_extract_json_from_response(content).str).ok
    THEN Continue(PyError("JSONDecodeError", <<"Expecting value">>, attempt))
  ELSE Return(json_loads(_extract_json_from_response(content).str).val)

\* a loop body for which a JSON syntax error is final on any attempt
DigestSyntaxErrorFatal(attempt, content, full_pdf_content) ==
  IF content # << >> /\ Contains(content, MarkerTrades) /\ Contains(content, MarkerFees)
     /\ attempt < max_retries - 1
    THEN Continue(NoError)
  ELSE
    LET json_str == _extract_json_from_response(content) IN
    IF ~json_str.ok
      THEN OnValueError(attempt, PyError("ValueError", json_str.err.msg, attempt))
    ELSE IF ~json_loads(json_str.str).ok
      THEN Raise(ConversionError("Falha ao parsear resposta do Agno",
                                 PyError("JSONDecodeError", <<"Expecting value">>, attempt)),
                 PyError("JSONDecodeError", <<"Expecting value">>, attempt))
    ELSE Accept(attempt, json_loads(json_str.str).val, full_pdf_content)

\* lines 337-346, content being the agent's answer
Digest(attempt, content, full_pdf_content) ==
  IF content # << >> /\ Contains(content, MarkerTrades) /\ Contains(content, MarkerFees)
     /\ attempt < max_retries - 1
    THEN Continue(NoError)
  ELSE
    LET json_str == _extract_json_from_response(content) IN
    IF ~json_str.ok
      THEN OnValueError(attempt, PyError("ValueError", json_str.err.msg, attempt))
    ELSE IF ~json_loads(json_str.str).ok
      THEN OnValueError(attempt, PyError("JSONDecodeError", <<"Expecting value">>, attempt))
    ELSE Accept(attempt, json_loads(json_str.str).val, full_pdf_content)

\* the body of `for attempt in range(max_retries)` for one answer of the agent
LoopBody(attempt, answer, full_pdf_content) ==
  IF answer.raises
    THEN IF answer.exc = "ValueError"
           THEN OnValueError(attempt, PyError("ValueError", <<"agent.run failed">>, attempt))
           ELSE OnException(attempt, PyError("Exception", <<"agent.run failed">>, attempt))
    ELSE Digest(attempt, answer.content, full_pdf_content)

(***************************************************************************)
(* The inputs of the model, and the pure functions tabulated over them      *)
(***************************************************************************)
Files ==
  {NotaOne, NotaTwo, NotaScan, NotaEncrypted, NotPdf, Missing, NotaTxt, EmptyPdf, HugePdf}
Answers ==
  {AnsEmpty, AnsOne, AnsTwo, AnsFeesOnly, AnsMixed, AnsNoted, AnsNoFees, AnsNull,
   AnsBroken, AnsRefusal, AnsChatter, AnsRaise, AnsRaiseValue}
Lookups == {"ok", "get_error", "hash_error"}
Setex == {"ok", "falsy", "error"}

FileAt(path) == CHOOSE f \in Files : f.path = path
AnswerOf(id) == CHOOSE a \in Answers : a.id = id

ParseJson(r) ==
  IF r.ok THEN [ok |-> TRUE, val |-> r.val]
  ELSE [ok |-> FALSE, type |-> "JSONDecodeError", msg |-> <<"Expecting value">>]

EmptyResult == JObj(<< <<"trades">>, <<"fees">> >>, <<JArr(<< >>), JArr(<< >>)>>)

\* An answer read with the service's own recovery and json.loads, outside
\* the loop: the decoded value, or the error of the step that failed
Parse(answer) ==
  IF answer.raises THEN [ok |-> FALSE, type |-> "Exception", msg |-> <<"agent.run failed">>]
  ELSE LET json_str == _extract_json_from_response(answer.content) IN
       IF ~json_str.ok
         THEN [ok |-> FALSE, type |-> "ValueError", msg |-> json_str.err.msg]
         ELSE ParseJson(json_loads(json_str.str))

\* What an answer is: the agent raised, free text without recoverable JSON,
\* recovered text that is no JSON, the empty structure, or other JSON
AnswerKind(parsed) ==
  IF parsed.ok THEN (IF parsed.val = EmptyResult THEN "empty" ELSE "json")
  ELSE CASE parsed.type = "Exception" -> "raise"
         [] parsed.type = "ValueError" -> "free_text"
         [] parsed.type = "JSONDecodeError" -> "bad_json"

\* LoopBody, Parse and AnswerKind computed once for every input
LoopBodyAt ==
  [x \in (0 .. max_retries - 1) \X {a.id : a \in Answers} \X {f.path : f \in Files} |->
     LoopBody(x[1], AnswerOf(x[2]), FullPdfContent(FileAt(x[3])))] @@ << >>
ParseAt == [id \in {a.id : a \in Answers} |-> Parse(AnswerOf(id))] @@ << >>
KindAt == [id \in DOMAIN ParseAt |-> AnswerKind(ParseAt[id])] @@ << >>


\* _simulate_agno_extraction: a fixed result of two trades and one fee
SimTrade(op, ticker, quantity, price, total) ==
  JObj(<< <<"orderNumber">>, <<"tradeDate">>, <<"operationType">>, <<"marketType">>,
          <<"market">>, <<"ticker">>, <<"quantity">>, <<"price">>, <<"totalValue">>,
          <<"strikePrice">>, <<"expirationDate">> >>,
       <<JStr(<<"20241201001">>), JStr(<<"2024-12-01">>), JStr(<<op>>), JStr(<<"VISTA">>),
         JStr(<<"BOVESPA">>), JStr(<<ticker>>), JInt(quantity), JFloat(price),
         JFloat(total), JNull, JNull>>)

_simulate_agno_extraction ==
  JObj(<< <<"trades">>, <<"fees">> >>,
       <<JArr(<<SimTrade("C", "PETR4", 100, 4250, 425000),
                SimTrade("V", "VALE3", 200, 6530, 1306000)>>),
         JArr(<<JObj(<< <<"orderNumber">>, <<"totalFees">> >>,
                     <<JStr(<<"20241201001">>), JFloat(1575)>>)>>)>>)

(***************************************************************************)
(* PDFService: the docling conversion and the split into notes             *)
(***************************************************************************)
\* What self.converter.convert(file_path) can do: raise, return a result
\* without a document, or return a document that exports to markdown
Docling(id, raises, document, markdown) ==
  [id |-> id, raises |-> raises, document |-> document, markdown |-> markdown]

DocTwoNotes ==
  Docling("two_notes", FALSE, TRUE,
          <<"#", " ", "NOTA DE NEGOCIACAO", " ", "SUZANO", "\n",
            "Nota de Negociacao", " ", "AMBEV", "\n">>)
DocOneNote ==
  Docling("one_note", FALSE, TRUE, <<"nota de negociacao", " ", "SUZANO">>)
DocPlain == Docling("plain", FALSE, TRUE, <<" ", "SUZANO", " ", "AMBEV", "\n">>)
DocBlank == Docling("blank", FALSE, TRUE, <<" ", "\n">>)
DocEmpty == Docling("empty", FALSE, TRUE, << >>)
DocNone == Docling("none", FALSE, FALSE, << >>)
DocRaise == Docling("raise", TRUE, FALSE, << >>)

Conversions == {DocTwoNotes, DocOneNote, DocPlain, DocBlank, DocEmpty, DocNone, DocRaise}
ConversionOf(id) == CHOOSE d \in Conversions : d.id = id

\* re.finditer(r'NOTA DE NEGOCIACAO', markdown, re.IGNORECASE): the 1-based
\* places of the marker, in order
Matches(markdown) ==
  LET m == {i \in 1..Len(markdown) : LowerLexeme(markdown[i]) = "nota de negociacao"}
  IN  [k \in 1..Cardinality(m) |->
         CHOOSE i \in m : Cardinality({j \in m : j < i}) = k - 1]

\* the same walk with every section running to the end of the text
_split_to_the_end(markdown) ==
  LET matches == Matches(markdown) IN
  IF matches = << >> THEN << <<1, markdown>> >>
  ELSE [i \in 1..Len(matches) |->
          <<i, Strip(Slice(markdown, matches[i] - 1, Len(markdown)))>>]

\* _split_by_nota_negociacao(markdown): the pairs (number, content)
_split_by_nota_negociacao(markdown) ==
  LET matches == Matches(markdown) IN
  IF matches = << >> THEN << <<1, markdown>> >>
  ELSE [i \in 1..Len(matches) |->
          LET start_pos == matches[i] - 1
              end_pos == IF i = Len(matches) THEN Len(markdown) ELSE matches[i + 1] - 1
          IN  <<i, Strip(Slice(markdown, start_pos, end_pos))>>]

\* {str(page_num): content for page_num, content in pages}
PagesMarkdown(pages) ==
  JObj([i \in 1..Len(pages) |-> <<IntRepr(pages[i][1])>>],
       [i \in 1..Len(pages) |-> JStr(pages[i][2])])

\* convert_pdf_to_markdown, lines 211-226: from the conversion to the pages
Converted(d) ==
  IF d.raises
    THEN Raise(ConversionError("Erro inesperado ao converter PDF",
                               PyError("Exception", <<"docling failed">>, 0)), NoError)
  ELSE IF ~d.document
    THEN Raise(ConversionError("Resultado da conversao invalido ou vazio", NoError), NoError)
  ELSE IF d.markdown = << >> \/ Strip(d.markdown) = << >>
    THEN Raise(ConversionError("Conteudo markdown vazio apos conversao", NoError), NoError)
  ELSE Return(PagesMarkdown(_split_by_nota_negociacao(d.markdown)))

ConvertedAt == [id \in {d.id : d \in Conversions} |-> Converted(ConversionOf(id))] @@ << >>

Range(fn) == {fn[x] : x \in DOMAIN fn}
Memo(tab, x, direct) == IF x \in DOMAIN tab THEN tab[x] ELSE direct

\* every result the loop can return
Returns(tab) == {out.result : out \in {o \in Range(tab) : o.kind = "return"}}

\* every result the extraction can hand to the cache
Storable == Returns(LoopBodyAt) \cup {_simulate_agno_extraction} \cup Returns(ConvertedAt)

\* json.dumps and json.loads computed once for what the cache is given
DumpsAt == [v \in Storable |-> json_dumps(v)] @@ << >>
LoadsAt == [t \in Range(DumpsAt) |-> json_loads(t)] @@ << >>
Dumps(value) == Memo(DumpsAt, value, json_dumps(value))
Loads(data) == Memo(LoadsAt, data, json_loads(data))

(***************************************************************************)
(* CacheService over the Redis store                                       *)
(***************************************************************************)
cache_ttl == 3600

\* `return json.loads(data)`, or None from the except clause
Decoded(r) == IF r.ok THEN r.val ELSE PyNone

\* a get that never finds anything
CacheService_get_blind(st, enabled, key, up) == PyNone

\* CacheService.get(key): st the store, up whether the store answers
CacheService_get(st, enabled, key, up) ==
  IF ~enabled THEN PyNone
  ELSE IF ~up THEN PyNone
  ELSE IF key \in DOMAIN st THEN Decoded(Loads(st[key].data))
  ELSE PyNone

\* a set that appends to the entry instead of replacing it
CacheService_set_append(st, enabled, key, value, how) ==
  [store |-> [k \in DOMAIN st \cup {key} |->
                IF k # key THEN st[k]
                ELSE [data |-> (IF key \in DOMAIN st THEN st[key].data ELSE << >>)
                                 \o Dumps(value),
                      ttl |-> cache_ttl]],
   ret |-> "True"]

\* CacheService.set(key, value): how the store answers setex ("ok", "falsy",
\* "error").  The handler clause `except json.JSONEncodeError` names an
\* attribute the json module does not have, so a store error leaves set as
\* an AttributeError.
CacheService_set(st, enabled, key, value, how) ==
  IF ~enabled THEN [store |-> st, ret |-> "False"]
  ELSE IF how = "ok"
    THEN [store |-> [k \in DOMAIN st \cup {key} |->
                       IF k = key THEN [data |-> Dumps(value), ttl |-> cache_ttl]
                       ELSE st[k]],
          ret |-> "True"]
  ELSE IF how = "falsy" THEN [store |-> st, ret |-> "False"]
  ELSE [store |-> st, ret |-> "AttributeError"]

\* CacheService.delete(key): bool(result) tells whether a key was removed
CacheService_delete(st, enabled, key, up) ==
  IF ~enabled \/ ~up THEN [store |-> st, ret |-> "False"]
  ELSE [store |-> [k \in DOMAIN st \ {key} |-> st[k]],
        ret |-> IF key \in DOMAIN st THEN "True" ELSE "False"]

\* CacheService.clear_all(): flushdb
CacheService_clear_all(st, enabled, up) ==
  IF ~enabled \/ ~up THEN [store |-> st, ret |-> "False"]
  ELSE [store |-> << >>, ret |-> "True"]

\* What the constructor can meet: settings.cache_enabled, and how the ping
\* of the new client ends
Boot(setting, ping) == [cache_enabled |-> setting, ping |-> ping]
Pings == {"ok", "ConnectionError", "Exception"}
Boots == {Boot(setting, ping) : setting \in BOOLEAN, ping \in Pings}

\* a constructor that trusts the setting
CacheService_init_trusting(b) == b.cache_enabled

\* CacheService.__init__: self.enabled when the constructor is done
CacheService_init(b) == b.cache_enabled /\ b.ping = "ok"

(***************************************************************************)
(* State                                                                   *)
(***************************************************************************)
VARIABLES
  store,           \* Redis: key -> [data, ttl]; an absent key is not in DOMAIN
  cache_enabled,   \* cache_service.enabled after CacheService.__init__
  AGNO_AVAILABLE,  \* the agno import succeeded, and so self.agent is set
  proc,            \* per caller: the call of extract_trades_and_fees in progress
  call,            \* the last call since that ran from entry to exit in one step
  boot,            \* what CacheService.__init__ met: the setting and the ping
  requests,        \* rate_limiter.requests: identifier -> period -> timestamps
  now,             \* the wall clock that datetime.now() reads, in seconds
  history          \* every call of is_allowed so far: who, when, and the answer

vars == <<store, cache_enabled, AGNO_AVAILABLE, proc, call, boot, requests, now, history>>

\* what the imports and the constructors fix for the life of the process
started == <<cache_enabled, AGNO_AVAILABLE, boot>>

\* what the services leave alone: what start-up fixed, and the rate limiter
\* of the API layer with its clock
fixed == <<started, requests, now, history>>

\* the clients the middleware tells apart: request.remote_addr or 'unknown'
Identifiers == {"10.0.0.1", "unknown"}

Periods == {"minute", "hour", "day"}

\* RateLimiter.__init__: the defaultdict gives every identifier three empty
\* deques at its first call
RateLimiter_init ==
  /\ requests = [identifier \in Identifiers |-> [period \in Periods |-> << >>]]
  /\ now = 0
  /\ history = << >>

MaxRuns == 3

\* a call of op on arg that ended in kind ("return" or "raise") with ret or
\* error; origin tells where a returned value came from
Call(op, arg, kind, ret, error, origin) ==
  [op |-> op, arg |-> arg, kind |-> kind, ret |-> ret, error |-> error, origin |-> origin]

\* no call yet
NoCall == Call("none", << >>, "none", PyNone, NoError, "none")

AllCallers == {"c1", "c2"}

\* pc: where the call is; runs: the agent.run calls of this caller so far; file, use_cache: its arguments; cache_key, attempt,
\* last_error, result: the locals of the same names; error: what it raised.
\* History of the call: lookup (what became of the cache lookup), prompts (the tier of every prompt sent), heard (the
\* kind of every answer), said (the last answer), outcomes (what each pass
\* ended in), diagnosed (_log_extraction_diagnosis ran), origin (where the
\* result came from), set_ret (what cache_service.set did), entry (the
\* method the caller entered by), response (what that method returned when
\* it is not the result itself).
IdleProc ==
  [pc |-> "idle", runs |-> 0, entry |-> "none", response |-> PyNone,
   file |-> << >>, use_cache |-> FALSE,
   cache_key |-> NoKey, lookup |-> "none", attempt |-> 0, last_error |-> NoError,
   prompts |-> << >>, heard |-> << >>, said |-> "none", outcomes |-> << >>,
   diagnosed |-> FALSE, result |-> PyNone, error |-> NoError,
   origin |-> "none", set_ret |-> "none"]

\* between two calls: only the count of agent.run calls is kept
Forgotten(p) == [IdleProc EXCEPT !.runs = p.runs]

\* a call entered: everything of the previous call is forgotten
Entered(p, f, use_cache) ==
  [IdleProc EXCEPT !.runs = p.runs, !.entry = p.entry,
                   !.file = f.path, !.use_cache = use_cache]

\* a call that skips the validator
ValidatedLenient(p, result, origin) ==
  IF p.use_cache /\ cache_enabled /\ p.cache_key # NoKey
    THEN [p EXCEPT !.pc = "store", !.result = result, !.origin = origin]
    ELSE [p EXCEPT !.pc = "returned", !.result = result, !.origin = origin]

\* lines 266-278 up to the cache write: validate, then store or return
Validated(p, result, origin) ==
  IF ~_validate_extraction_result(result)
    THEN [p EXCEPT !.pc = "raised",
                   !.error = ConversionError("Resultado da extracao invalido", NoError)]
  ELSE IF p.use_cache /\ cache_enabled /\ p.cache_key # NoKey
    THEN [p EXCEPT !.pc = "store", !.result = result, !.origin = origin]
    ELSE [p EXCEPT !.pc = "returned", !.result = result, !.origin = origin]

\* lines 259-264: the agent, or the simulation when there is none
Extract(p) ==
  IF AGNO_AVAILABLE
    THEN [p EXCEPT !.pc = "attempt"]
    ELSE Validated(p, _simulate_agno_extraction, "simulation")

\* the prefix of the cache keys of the method entered
Namespace(entry) ==
  IF entry = "convert_pdf_to_markdown" THEN "pdf_conversion:" ELSE "agno_extraction:"

\* after a miss: the extraction, or the docling conversion of
\* convert_pdf_to_markdown (pdf_service.py line 211)
Missed(p) ==
  IF p.entry = "convert_pdf_to_markdown" THEN [p EXCEPT !.pc = "convert"] ELSE Extract(p)

\* lines 245-257 (pdf_service.py lines 197-209 are the same but for the
\* prefix): io is what the environment does to the lookup
\* ("ok", "get_error": the store fails, "hash_error": the file cannot be read)
Lookup(p, f, io) ==
  IF p.use_cache /\ cache_enabled
    THEN IF io = "hash_error" THEN Missed([p EXCEPT !.lookup = io])
         ELSE LET cache_key == <<Namespace(p.entry), calculate_file_hash(f)>>
                  cached_result ==
                    CacheService_get(store, cache_enabled, cache_key, io # "get_error")
                  q == [p EXCEPT !.cache_key = cache_key, !.lookup = io]
              IN  IF Truthy(cached_result)
                    THEN [q EXCEPT !.pc = "returned", !.result = cached_result,
                                   !.origin = "cache"]
                    ELSE Missed(q)
    ELSE Missed(p)

(***************************************************************************)
(* Actions                                                                 *)
(***************************************************************************)
\* the call that is about to enter by entry
Named(p, entry) == [p EXCEPT !.entry = entry]

\* PDFService.validate_pdf: TRUE iff it returns True; FALSE iff it raises
\* ValidationError
PDFService_validate_pdf(f) ==
  /\ f.isfile
  /\ EndsWith(Lower(f.path), <<".pdf">>)
  /\ f.size # 0
  /\ ~(f.size > max_content_length)
  /\ StartsWith(Header(f), <<"%PDF-">>)

\* self.validate_pdf of the service the method belongs to
Valid(entry, f) ==
  IF entry \in {"convert_pdf_to_markdown", "extract_tables_advanced"}
    THEN PDFService_validate_pdf(f)
    ELSE validate_pdf(f)

\* a call that looks the document up before it validates it
BeginUnvalidated(c, f, use_cache, io) ==
  /\ proc[c].pc \in {"idle", "returned", "raised"}
  /\ proc' = [proc EXCEPT ![c] =
       Lookup(Entered(Named(proc[c], "extract_trades_and_fees"), f, use_cache), f, io)]
  /\ call' = NoCall
  /\ UNCHANGED <<store, fixed>>

\* extract_trades_and_fees(f, use_cache) up to its first wait: validation,
\* the cache lookup and, on a miss, the choice of the extraction path
Started(p, f, use_cache, io) ==
  IF ~Valid(p.entry, f)
    THEN [Entered(p, f, use_cache) EXCEPT
            !.pc = "raised", !.error = ValidationError("arquivo invalido")]
  ELSE IF p.entry = "extract_tables_advanced"
    THEN [Entered(p, f, use_cache) EXCEPT !.pc = "convert"]
  ELSE Lookup(Entered(p, f, use_cache), f, io)

Begin(c, f, use_cache, io) ==
  /\ proc[c].pc \in {"idle", "returned", "raised"}
  /\ proc' = [proc EXCEPT ![c] =
       Started(Named(proc[c], "extract_trades_and_fees"), f, use_cache, io)]
  /\ call' = NoCall
  /\ UNCHANGED <<store, fixed>>

\* pdf_service.py imports agno_service under `except ImportError`; the
\* agno_service module guards its own optional imports, so the import succeeds
AGNO_SERVICE_AVAILABLE == TRUE

\* _convert_with_agno, lines 334-348: the result in the envelope of the API,
\* or the error of `.get` and `len` on a result that has neither
_convert_with_agno(p) ==
  LET agno_result == p.result
      Counted(k) == ~HasKey(agno_result, k) \/ HasLen(Get(agno_result, k))
      Total(k) == IF HasKey(agno_result, k) THEN PyLen(Get(agno_result, k)) ELSE 0
  IN  IF agno_result.t # "obj"
        THEN [p EXCEPT !.pc = "raised", !.error = PyError("AttributeError", <<"get">>, 0)]
      ELSE IF ~Counted("trades") \/ ~Counted("fees")
        THEN [p EXCEPT !.pc = "raised", !.error = PyError("TypeError", <<"len">>, 0)]
      ELSE [p EXCEPT !.response =
              [processor |-> "agno", format |-> "json", data |-> agno_result,
               total_trades |-> Total("trades"), total_fees |-> Total("fees")]]

\* convert_pdf_adaptive, lines 306-314, around a call that has just ended:
\* every exception leaves as a ConversionError
convert_pdf_adaptive(p) ==
  LET q == IF p.pc = "returned" THEN _convert_with_agno(p) ELSE p
  IN  IF q.pc = "raised"
        THEN [q EXCEPT !.error = ConversionError("Falha na conversao", q.error)]
        ELSE q

\* the exit of the call in progress through the method it was entered by
Left(p) ==
  IF p.entry = "convert_pdf_adaptive" /\ p.pc \in {"returned", "raised"}
    THEN convert_pdf_adaptive(p)
    ELSE p

\* _convert_with_agno (lines 329-330) refuses when the import of agno_service
\* failed; the validator of settings.pdf_processor leaves "agno" as the only
\* processor of convert_pdf_adaptive.  p is the call up to its first wait.
Via(entry, p) ==
  IF entry = "convert_pdf_adaptive" /\ ~AGNO_SERVICE_AVAILABLE
    THEN [Forgotten(p) EXCEPT
            !.entry = entry, !.file = p.file, !.use_cache = p.use_cache, !.pc = "raised",
            !.error = ConversionError("Servico Agno nao disponivel", NoError)]
    ELSE p

\* A call of extract_trades_and_fees, convert_pdf_adaptive,
\* convert_pdf_to_markdown or extract_tables_advanced with (f, use_cache), up
\* to its first wait
Enter(c, entry, f, use_cache, io) ==
  /\ proc[c].pc \in {"idle", "returned", "raised"}
  /\ proc' = [proc EXCEPT ![c] =
       Left(Via(entry, Started(Named(proc[c], entry), f, use_cache, io)))]
  /\ call' = NoCall
  /\ UNCHANGED <<store, fixed>>

\* extract_tables_advanced, lines 399-427, on the documents of Conversions,
\* which hold no table: walk tells whether the pass over the elements of the
\* document ends or raises
Tabled(d, walk) ==
  IF d.raises \/ (d.document /\ walk = "raise")
    THEN Raise(ConversionError("Erro ao extrair tabelas",
                               PyError("Exception", <<"docling failed">>, 0)), NoError)
  ELSE IF ~d.document
    THEN Raise(ConversionError("Resultado da conversao invalido", NoError), NoError)
  ELSE Return(JObj(<< <<"tables">>, <<"metadata">> >>,
                   <<JArr(<< >>),
                     JObj(<< <<"total_tables">>, <<"export_format">> >>,
                          <<JInt(0), JStr(<<"json">>)>>)>>))

\* where the conversion leaves the call: convert_pdf_to_markdown writes its
\* pages to the cache when it has a key (lines 232-238)
Docled(p, out) ==
  CASE out.kind = "raise" -> [p EXCEPT !.pc = "raised", !.error = out.error]
    [] out.kind = "return" ->
         IF p.entry = "convert_pdf_to_markdown" /\ p.use_cache /\ cache_enabled
              /\ p.cache_key # NoKey
           THEN [p EXCEPT !.pc = "store", !.result = out.result, !.origin = "docling"]
           ELSE [p EXCEPT !.pc = "returned", !.result = out.result, !.origin = "docling"]

\* self.converter.convert(file_path) and everything up to the next wait
DoclingRun(c, d, walk) ==
  /\ proc[c].pc = "convert"
  /\ proc' = [proc EXCEPT ![c] =
       Docled(proc[c], IF proc[c].entry = "extract_tables_advanced"
                         THEN Tabled(d, walk) ELSE ConvertedAt[d.id])]
  /\ UNCHANGED <<store, fixed, call>>

OutcomeName(kind) ==
  CASE kind = "return" -> "SUCCESS" [] kind = "raise" -> "FAILED" [] kind = "continue" -> "RETRY"

\* the history of the call and last_error after a pass that ended in out
Logged(p, answer, out) ==
  [p EXCEPT !.runs = @ + 1,
            !.prompts = Append(@, PromptFor(p.attempt, FileAt(p.file),
                                            FullPdfContent(FileAt(p.file))).tier),
            !.heard = Append(@, KindAt[answer.id]),
            !.said = answer.id,
            !.outcomes = Append(@, OutcomeName(out.kind)),
            !.last_error = IF out.caught # NoError THEN out.caught ELSE @]

\* a call that hands on what the loop returned as it is
SteppedUnchecked(q, out) ==
  CASE out.kind = "return" -> [q EXCEPT !.pc = "returned", !.result = out.result,
                                        !.origin = "agent"]
    [] out.kind = "raise" -> [q EXCEPT !.pc = "raised", !.error = out.error]
    [] out.kind = "continue" ->
         IF q.attempt + 1 < max_retries
           THEN [q EXCEPT !.attempt = q.attempt + 1]
           ELSE [q EXCEPT !.pc = "raised",
                          !.error = ConversionError("Falha na extracao com Agno",
                                                    q.last_error)]

\* where a pass that ended in out leaves the call, q being the call after it
Stepped(q, out) ==
  CASE out.kind = "return" -> Validated(q, out.result, "agent")
    [] out.kind = "raise" -> [q EXCEPT !.pc = "raised", !.error = out.error]
    [] out.kind = "continue" ->
         IF q.attempt + 1 < max_retries
           THEN [q EXCEPT !.attempt = q.attempt + 1]
           \* lines 401-404: the loop ran out
           ELSE [q EXCEPT !.pc = "raised", !.diagnosed = TRUE,
                          !.error = ConversionError("Falha na extracao com Agno",
                                                    q.last_error)]

Passed(p, answer, out) == Stepped(Logged(p, answer, out), out)

\* one agent.run and everything up to the next wait
Attempted(p, answer) == Passed(p, answer, LoopBodyAt[<<p.attempt, answer.id, p.file>>])

AgentRun(c, answer) ==
  /\ proc[c].pc = "attempt"
  /\ proc[c].runs < MaxRuns
  /\ proc' = [proc EXCEPT ![c] = Left(Attempted(proc[c], answer))]
  /\ UNCHANGED <<store, fixed, call>>

\* a cache write whose exception is not caught around the call of set
CacheStoreUncaught(c, how) ==
  LET done == CacheService_set(store, cache_enabled, proc[c].cache_key,
                               proc[c].result, how)
  IN  /\ proc[c].pc = "store"
      /\ store' = done.store
      /\ proc' = [proc EXCEPT ![c] =
           IF done.ret = "AttributeError"
             THEN [proc[c] EXCEPT
                     !.pc = "raised", !.set_ret = done.ret,
                     !.error = ConversionError("Erro ao extrair dados com Agno",
                                               PyError(done.ret, <<"JSONEncodeError">>, 0))]
             ELSE [proc[c] EXCEPT !.pc = "returned", !.set_ret = done.ret]]
      /\ UNCHANGED <<fixed, call>>

\* lines 270-278: cache_service.set, whose failure is logged, and the return
CacheStore(c, how) ==
  LET done == CacheService_set(store, cache_enabled, proc[c].cache_key,
                               proc[c].result, how)
  IN  /\ proc[c].pc = "store"
      /\ store' = done.store
      /\ proc' = [proc EXCEPT ![c] =
           Left([proc[c] EXCEPT !.pc = "returned", !.set_ret = done.ret])]
      /\ UNCHANGED <<fixed, call>>

\* Redis drops an entry whose TTL has elapsed
Expire(k) ==
  /\ k \in DOMAIN store
  /\ store' = [j \in DOMAIN store \ {k} |-> store[j]]
  /\ UNCHANGED <<fixed, proc, call>>

\* PDFService.clear_cache(): clear_all when the cache is enabled
PdfClearCache(up) ==
  LET done == IF cache_enabled THEN CacheService_clear_all(store, cache_enabled, up)
              ELSE [store |-> store, ret |-> "True"]
  IN  /\ store' = done.store
      /\ call' = Call("PDFService.clear_cache", << >>, "return", done.ret, NoError, "none")
      /\ UNCHANGED <<fixed, proc>>

\* AgnoService.clear_cache(): cache_service has no clear_pattern, and the
\* AttributeError of the lookup is caught and answered with False
AgnoClearCache ==
  /\ call' = Call("AgnoService.clear_cache", << >>, "return",
                  IF cache_enabled THEN "False" ELSE "True", NoError, "none")
  /\ UNCHANGED <<store, fixed, proc>>

\* the operations of cache_service called on their own
CacheGet(key, up) ==
  /\ call' = Call("get", key, "return",
                  CacheService_get(store, cache_enabled, key, up), NoError,
                  IF cache_enabled THEN "redis" ELSE "none")
  /\ UNCHANGED <<store, fixed, proc>>

\* a call that ended as done tells: a Python exception when ret names one
Ended(op, key, done) ==
  IF done.ret \in {"True", "False"}
    THEN Call(op, key, "return", done.ret, NoError,
              IF cache_enabled THEN "redis" ELSE "none")
    ELSE Call(op, key, "raise", PyNone, PyError(done.ret, <<"JSONEncodeError">>, 0),
              "redis")

CacheSet(key, value, how) ==
  LET done == CacheService_set(store, cache_enabled, key, value, how)
  IN  /\ store' = done.store
      /\ call' = Ended("set", key, done)
      /\ UNCHANGED <<fixed, proc>>

CacheDelete(key, up) ==
  LET done == CacheService_delete(store, cache_enabled, key, up)
  IN  /\ store' = done.store
      /\ call' = Ended("delete", key, done)
      /\ UNCHANGED <<fixed, proc>>

CacheClearAll(up) ==
  LET done == CacheService_clear_all(store, cache_enabled, up)
  IN  /\ store' = done.store
      /\ call' = Ended("clear_all", << >>, done)
      /\ UNCHANGED <<fixed, proc>>

(***************************************************************************)
(* Specifications                                                          *)
(***************************************************************************)
Keys == {<<"agno_extraction:", calculate_file_hash(f)>> : f \in Files}

\* the process after its imports: every constructor has run
Booted(boots) ==
  /\ store = << >>
  /\ boot \in boots
  /\ cache_enabled = CacheService_init(boot)
  /\ RateLimiter_init
  /\ AGNO_AVAILABLE \in BOOLEAN
  /\ proc = [c \in AllCallers |-> IdleProc]
  /\ call = NoCall

\* the store answers the ping of the constructor
Init == Booted({Boot(setting, "ok") : setting \in BOOLEAN})

\* one caller, one call after another
Next ==
  \/ \E f \in Files, u \in BOOLEAN, io \in Lookups : Begin("c1", f, u, io)
  \/ \E a \in Answers : AgentRun("c1", a)
  \/ \E how \in Setex : CacheStore("c1", how)
  \/ \E k \in Keys : Expire(k)

Spec == Init /\ [][Next]_vars

\* two callers, one call each, running side by side within the TTL
ConcFiles == {NotaOne, NotaTwo}
ConcAnswers == {AnsOne, AnsTwo, AnsMixed, AnsChatter}

ConcBegin(c, f) == proc[c].pc = "idle" /\ Begin(c, f, TRUE, "ok")

NextConc ==
  \/ \E c \in AllCallers, f \in ConcFiles : ConcBegin(c, f)
  \/ \E c \in AllCallers, a \in ConcAnswers : AgentRun(c, a)
  \/ \E c \in AllCallers, how \in Setex : CacheStore(c, how)

SpecConc == Init /\ [][NextConc]_vars

\* the entry points of PDFService and AgnoService side by side over one cache
PdfFiles == {NotaOne, NotPdf, Missing}
PdfAnswers == {AnsOne, AnsChatter, AnsRaise, AnsRaiseValue}
PdfKeys ==
  {<<ns, calculate_file_hash(f)>> : ns \in {"agno_extraction:", "pdf_conversion:"},
                                     f \in PdfFiles}
Entries ==
  {"extract_trades_and_fees", "convert_pdf_adaptive", "convert_pdf_to_markdown",
   "extract_tables_advanced"}

NextPdf ==
  \/ \E entry \in Entries, f \in PdfFiles, u \in BOOLEAN, io \in Lookups :
        Enter("c1", entry, f, u, io)
  \/ \E a \in PdfAnswers : AgentRun("c1", a)
  \/ \E d \in Conversions, walk \in {"ok", "raise"} : DoclingRun("c1", d, walk)
  \/ \E how \in Setex : CacheStore("c1", how)
  \/ \E up \in BOOLEAN : PdfClearCache(up)
  \/ AgnoClearCache
  \/ \E k \in PdfKeys : Expire(k)

SpecPdf == Init /\ [][NextPdf]_vars

\* cache_service on its own, from its construction on
CacheKeys == {<<"agno_extraction:", "3f9a">>, <<"pdf_conversion:", "3f9a">>}
CacheValues == {EmptyResult, _simulate_agno_extraction}

NextCache ==
  \/ \E k \in CacheKeys, up \in BOOLEAN : CacheGet(k, up)
  \/ \E k \in CacheKeys, v \in CacheValues, how \in Setex : CacheSet(k, v, how)
  \/ \E k \in CacheKeys, up \in BOOLEAN : CacheDelete(k, up)
  \/ \E up \in BOOLEAN : CacheClearAll(up)
  \/ \E k \in CacheKeys : Expire(k)

SpecCache == Booted(Boots) /\ [][NextCache]_vars

\* _validate_extraction_result on its own: the values json.loads can hand
\* to it, built from one good trade and one good fee by changing one field
GoodTrade ==
  JObj(<< <<"orderNumber">>, <<"tradeDate">>, <<"operationType">>, <<"marketType">>,
          <<"market">>, <<"ticker">>, <<"quantity">>, <<"price">>, <<"totalValue">> >>,
       <<JStr(<<"5187530">>), JStr(<<"2014-05-08">>), JStr(<<"C">>), JStr(<<"VISTA">>),
         JStr(<<"BOVESPA">>), JStr(<<"SUZANO">>), JInt(100), JFloat(728), JFloat(72800)>>)

GoodFee ==
  JObj(<< <<"orderNumber">>, <<"totalFees">> >>, <<JStr(<<"5187530">>), JFloat(1577)>>)

\* del d[k]
Without(d, k) ==
  LET keep == {i \in 1..Len(d.keys) : d.keys[i] # <<k>>}
      at(n) == CHOOSE i \in keep : Cardinality({j \in keep : j < i}) = n - 1
  IN  JObj([n \in 1..Cardinality(keep) |-> d.keys[at(n)]],
           [n \in 1..Cardinality(keep) |-> d.vals[at(n)]])

Scalars ==
  {JInt(100), JInt(1), JInt(0), JInt(-1), JFloat(728), JFloat(0), JFloat(-100),
   JBool(TRUE), JBool(FALSE), JStr(<<"100">>), JNull}

TradeInputs ==
  {GoodTrade, JNull, JStr(<<"ticker">>), JArr(<< >>)}
    \cup {Without(GoodTrade, TradeRequired[i]) : i \in 1..Len(TradeRequired)}
    \cup {DictSet(GoodTrade, <<"operationType">>, v) :
            v \in {JStr(<<"V">>), JStr(<<"X">>), JStr(<<"c">>), JNull, JInt(1)}}
    \cup {DictSet(GoodTrade, <<"market">>, v) :
            v \in {JStr(<<"BMF">>), JStr(<<"NYSE">>), JNull}}
    \cup {DictSet(GoodTrade, <<k>>, v) : k \in {"quantity", "price", "totalValue"},
                                          v \in Scalars}
    \cup {DictSet(GoodTrade, <<"strikePrice">>, JNull)}

FeeInputs ==
  {GoodFee, JNull, JArr(<< >>), Without(GoodFee, "orderNumber"),
   Without(GoodFee, "totalFees"), DictSet(GoodFee, <<"orderNumber">>, JNull)}
    \cup {DictSet(GoodFee, <<"totalFees">>, v) : v \in Scalars}

ResultOf(trades, fees) == JObj(<< <<"trades">>, <<"fees">> >>, <<trades, fees>>)

ResultInputs ==
  {JNull, JArr(<< >>), JStr(<<"trades">>), JInt(1), JObj(<< >>, << >>),
   Without(EmptyResult, "trades"), Without(EmptyResult, "fees"),
   ResultOf(JNull, JArr(<< >>)), ResultOf(JArr(<< >>), JNull),
   ResultOf(GoodTrade, JArr(<< >>)), ResultOf(JArr(<< >>), GoodFee),
   ResultOf(JArr(<<GoodTrade, GoodTrade>>), JArr(<< >>))}
    \cup {ResultOf(JArr(ts), JArr(fs)) :
            ts \in {<< >>} \cup {<<t>> : t \in TradeInputs}
                            \cup {<<GoodTrade, t>> : t \in {JNull, Without(GoodTrade, "ticker")}},
            fs \in {<< >>} \cup {<<f>> : f \in FeeInputs}}

\* a value waits for the validator
InitValidator ==
  /\ store = << >>
  /\ boot = Boot(TRUE, "ok")
  /\ cache_enabled = CacheService_init(boot)
  /\ RateLimiter_init
  /\ AGNO_AVAILABLE = TRUE
  /\ proc = [c \in AllCallers |-> IdleProc]
  /\ call \in {Call("input", v, "none", PyNone, NoError, "none") : v \in ResultInputs}

\* _validate_extraction_result(result): the result itself, or ConversionError
Validate ==
  /\ call.op = "input"
  /\ call' = IF _validate_extraction_result(call.arg)
               THEN Call("_validate_extraction_result", call.arg, "return", call.arg,
                         NoError, "none")
               ELSE Call("_validate_extraction_result", call.arg, "raise", PyNone,
                         ConversionError("Resultado da extracao invalido", NoError), "none")
  /\ UNCHANGED <<store, fixed, proc>>

SpecValidator == InitValidator /\ [][Validate]_vars

(***************************************************************************)
(* _extract_json_from_response on its own: a response text waits for it    *)
(***************************************************************************)
RECURSIVE TJoinLines(_)
TJoinLines(parts) ==
  IF parts = << >> THEN << >>
  ELSE Head(parts) \o (IF Len(parts) > 1 THEN <<",", "\n">> ELSE << >>)
       \o TJoinLines(Tail(parts))

\* an object text written one member per line, as json.dumps(obj, indent=2)
\* and most agents lay it out
TLines(members) == <<"{", "\n">> \o TJoinLines(members) \o <<"\n", "}">>

\* a string value holding a URL: "http://b3.com.br"
UrlText == <<Q, "http:", "//", "b3.com.br", Q>>

EmptyMembers == <<TPair("trades", TArr(<< >>)), TPair("fees", TArr(<< >>))>>
NotedMembers == <<TPair("trades", TArr(<< >>)), TPair("fees", TArr(<< >>)),
                  TPair("source", UrlText)>>
UrlFirstMembers == <<TPair("source", UrlText), TPair("trades", TArr(<< >>)),
                     TPair("fees", TArr(<< >>))>>

\* valid JSON object texts J
JsonTexts ==
  {<<"{", "}">>,
   TObj(<<TPair("a", <<"1">>)>>),
   TObj(<<TPair("a", TObj(<<TPair("b", <<"2">>)>>))>>),
   TObj(<<TPair("a", <<Q, "}", "{", Q>>)>>),
   TObj(<<TPair("a", <<Q, "~~~", Q>>)>>),
   TObj(EmptyMembers), TLines(EmptyMembers),
   TObj(NotedMembers), TLines(NotedMembers), TLines(UrlFirstMembers),
   ResultText(<<TradeText("SUZANO", "100")>>, <<FeeText>>),
   TLines(<<TPair("trades", TArr(<<TradeText("SUZANO", "100")>>)),
            TPair("fees", TArr(<<FeeText>>))>>)}

Response(shape, variant, j, text) ==
  [shape |-> shape, variant |-> variant, j |-> j, text |-> text]

\* the four shapes an agent wraps J in
Shaped(j) ==
  {Response("alone", 1, j, j),
   Response("alone", 2, j, <<"\n">> \o j \o <<"\n">>),
   Response("json_fence", 1, j, <<"~~~", "json", "\n">> \o j \o <<"\n", "~~~">>),
   Response("json_fence", 2, j, <<"~~~", "json", " ">> \o j \o <<" ", "~~~">>),
   Response("fence", 1, j, <<"~~~", "\n">> \o j \o <<"\n", "~~~">>),
   Response("fence", 2, j, <<"~~~">> \o j \o <<"~~~">>),
   Response("noise", 1, j, <<"Here", " ", "it is", " ">> \o j \o <<" ", "Done">>),
   Response("noise", 2, j, <<"Sure", "\n">> \o j \o <<"\n", "Done">>)}

FourShapes == {"alone", "json_fence", "fence", "noise"}

\* other texts an agent may answer with
OtherTexts ==
  {<< >>, <<" ">>,
   <<"{", Q, "trades", Q, ":", "[", "}">>,
   <<"I", " ", "Cannot process", " ", "the", " ", "file">>,
   <<"~~~", "json", "\n", "not json", "\n", "~~~">>,
   <<"~~~", "json", "\n", "~~~">>,
   <<"~~~", "\n", "{", "oops", "\n", "~~~">>,
   <<"~~~", "\n", "oops", "\n", "~~~">>,
   <<"x", " ", "{", " ", "y", " ", "}", " ", "z">>,
   <<"}", " ", "{">>,
   <<"{", "}", " ", "trailing", " ", "{">>}

Responses ==
  UNION {Shaped(j) : j \in JsonTexts}
    \cup {Response("other", 1, << >>, t) : t \in OtherTexts}

\* a response text waits for the parser
InitRecovery ==
  /\ store = << >>
  /\ boot = Boot(TRUE, "ok")
  /\ cache_enabled = CacheService_init(boot)
  /\ RateLimiter_init
  /\ AGNO_AVAILABLE = TRUE
  /\ proc = [c \in AllCallers |-> IdleProc]
  /\ call \in {Call("response", r, "none", PyNone, NoError, "none") : r \in Responses}

\* json_str = self._extract_json_from_response(content): a string, or ValueError
Recover ==
  /\ call.op = "response"
  /\ call' = LET r == _extract_json_from_response(call.arg.text)
             IN  IF r.ok
                   THEN Call("_extract_json_from_response", call.arg, "return", r.str,
                             NoError, "none")
                   ELSE Call("_extract_json_from_response", call.arg, "raise", PyNone,
                             r.err, "none")
  /\ UNCHANGED <<store, fixed, proc>>

SpecRecovery == InitRecovery /\ [][Recover]_vars

(***************************************************************************)
(* _split_by_nota_negociacao on its own: a markdown text waits for it      *)
(***************************************************************************)
MaxLen == 4

\* the marker in two spellings, white space and a word
MarkdownLexemes == {"NOTA DE NEGOCIACAO", "Nota de Negociacao", " ", "\n", "SUZANO"}

Markdowns == UNION {[1..n -> MarkdownLexemes] : n \in 0..MaxLen}

\* a markdown text waits for the segmenter
InitSegmenter ==
  /\ store = << >>
  /\ boot = Boot(TRUE, "ok")
  /\ cache_enabled = CacheService_init(boot)
  /\ RateLimiter_init
  /\ AGNO_AVAILABLE = TRUE
  /\ proc = [c \in AllCallers |-> IdleProc]
  /\ call \in {Call("markdown", m, "none", PyNone, NoError, "none") : m \in Markdowns}

\* pages = self._split_by_nota_negociacao(markdown_content)
Split ==
  /\ call.op = "markdown"
  /\ call' = Call("_split_by_nota_negociacao", call.arg, "return",
                  _split_by_nota_negociacao(call.arg), NoError, "none")
  /\ UNCHANGED <<store, fixed, proc>>

SpecSegmenter == InitSegmenter /\ [][Split]_vars

(***************************************************************************)
(* PDFService: the export of tables.  A cell is a sequence of characters,  *)
(* a grid a sequence of rows, a row a sequence of cells.                   *)
(***************************************************************************)
\* table_info['data']: None, or a list of rows
NoData == [t |-> "none"]
Grid(rows) == [t |-> "grid", rows |-> rows]

\* not table_info['data']
Falsy(data) == data.t = "none" \/ data.rows = << >>

RECURSIVE Replace(_, _, _)
\* text.replace(old, new) for a one-character old
Replace(text, old, new) ==
  IF text = << >> THEN << >>
  ELSE (IF Head(text) = old THEN new ELSE <<Head(text)>>) \o Replace(Tail(text), old, new)

\* the same replacements with the ampersand handled last
_escape_html_ampersand_last(text) ==
  Replace(Replace(Replace(Replace(Replace(text,
    "<", <<"&", "l", "t", ";">>),
    ">", <<"&", "g", "t", ";">>),
    Q, <<"&", "q", "u", "o", "t", ";">>),
    "'", <<"&", "#", "x", "2", "7", ";">>),
    "&", <<"&", "a", "m", "p", ";">>)

\* _escape_html(text): five replacements, one after the other
_escape_html(text) ==
  Replace(Replace(Replace(Replace(Replace(text,
    "&", <<"&", "a", "m", "p", ";">>),
    "<", <<"&", "l", "t", ";">>),
    ">", <<"&", "g", "t", ";">>),
    Q, <<"&", "q", "u", "o", "t", ";">>),
    "'", <<"&", "#", "x", "2", "7", ";">>)

RECURSIVE HtmlCells(_, _, _)
\* html.append(f"<th>{self._escape_html(cell)}</th>") for each cell of a row
HtmlCells(row, open, close) ==
  IF row = << >> THEN << >>
  ELSE <<open>> \o _escape_html(Head(row)) \o <<close>> \o HtmlCells(Tail(row), open, close)

RECURSIVE HtmlRows(_)
HtmlRows(rows) ==
  IF rows = << >> THEN << >>
  ELSE <<"<tr>">> \o HtmlCells(Head(rows), "<td>", "</td>") \o <<"</tr>">>
       \o HtmlRows(Tail(rows))

\* _convert_table_to_html(table_data): "".join(html)
_convert_table_to_html(table_data) ==
  IF table_data = << >> THEN <<"<table></table>">>
  ELSE <<"<table border='1'>">>
       \o <<"<thead><tr>">> \o HtmlCells(table_data[1], "<th>", "</th>") \o <<"</tr></thead>">>
       \o (IF Len(table_data) > 1
             THEN <<"<tbody>">> \o HtmlRows(Tail(table_data)) \o <<"</tbody>">>
             ELSE << >>)
       \o <<"</table>">>

\* csv.writer, dialect excel: QUOTE_MINIMAL quotes a field that holds the
\* delimiter, the quote character or a character of the line terminator,
\* and doubles every quote character in it
CsvSpecial == {",", Q, "\r", "\n"}

CsvField(cell, alone) ==
  IF (\E i \in 1..Len(cell) : cell[i] \in CsvSpecial) \/ (cell = << >> /\ alone)
    THEN <<Q>> \o Replace(cell, Q, <<Q, Q>>) \o <<Q>>
    ELSE cell

RECURSIVE CsvJoin(_, _)
CsvJoin(row, alone) ==
  IF row = << >> THEN << >>
  ELSE CsvField(Head(row), alone) \o (IF Len(row) > 1 THEN <<",">> ELSE << >>)
       \o CsvJoin(Tail(row), alone)

\* writer.writerow(row): the fields and the line terminator "\r\n"
CsvRow(row) == CsvJoin(row, Len(row) = 1) \o <<"\r", "\n">>

RECURSIVE BareJoin(_)
BareJoin(row) ==
  IF row = << >> THEN << >>
  ELSE Head(row) \o (IF Len(row) > 1 THEN <<",">> ELSE << >>) \o BareJoin(Tail(row))

RECURSIVE CsvBare(_)
\* the cells of every row joined by commas, no field quoted
CsvBare(table_data) ==
  IF table_data = << >> THEN << >>
  ELSE BareJoin(Head(table_data)) \o <<"\r", "\n">> \o CsvBare(Tail(table_data))

RECURSIVE _convert_table_to_csv(_)
\* _convert_table_to_csv(table_data): writer.writerows, then output.getvalue()
_convert_table_to_csv(table_data) ==
  IF table_data = << >> THEN << >>
  ELSE CsvRow(Head(table_data)) \o _convert_table_to_csv(Tail(table_data))

\* _convert_table_to_excel_format(table_data)
_convert_table_to_excel_format(table_data) ==
  IF table_data = << >> THEN [headers |-> << >>, rows |-> << >>]
  ELSE [headers |-> table_data[1],
        rows |-> IF Len(table_data) > 1 THEN Tail(table_data) ELSE << >>,
        dataframe_compatible |-> TRUE]

\* table_info of _extract_tables_from_document
TableInfo(id, data) == [id |-> id, page |-> 1, data |-> data]

\* the record appended to processed_tables for one table_info
Processed(table_info, export_format) ==
  LET rows == table_info.data.rows
      meta == [rows |-> Len(rows),
               cols |-> IF rows[1] # << >> THEN Len(rows[1]) ELSE 0]
      made(data, format) == [id |-> table_info.id, page |-> table_info.page,
                             metadata |-> meta, data |-> data, format |-> format]
  IN  CASE export_format = "csv" -> made(_convert_table_to_csv(rows), "csv")
        [] export_format = "excel" -> made(_convert_table_to_excel_format(rows), "excel")
        [] export_format = "html" -> made(_convert_table_to_html(rows), "html")
        [] OTHER -> made(rows, "json")

RECURSIVE _process_tables_unfiltered(_, _)
\* the export with a table without data emitted as an empty record
_process_tables_unfiltered(tables_data, export_format) ==
  IF tables_data = << >> THEN << >>
  ELSE <<IF Falsy(Head(tables_data).data)
           THEN Processed(TableInfo(Head(tables_data).id, Grid(<< << >> >>)), export_format)
           ELSE Processed(Head(tables_data), export_format)>>
       \o _process_tables_unfiltered(Tail(tables_data), export_format)

RECURSIVE _process_tables_for_export(_, _)
\* _process_tables_for_export(tables_data, export_format)
_process_tables_for_export(tables_data, export_format) ==
  IF tables_data = << >> THEN << >>
  ELSE (IF Falsy(Head(tables_data).data) THEN << >>
        ELSE <<Processed(Head(tables_data), export_format)>>)
       \o _process_tables_for_export(Tail(tables_data), export_format)

\* f"{output_dir}/table_{table_id}.csv" and its like
Extension(format) ==
  CASE format = "csv" -> ".csv" [] format = "excel" -> ".xlsx"
    [] format = "html" -> ".html" [] format = "json" -> ".json"

FileName(table) == <<"tables_output", "/", "table_", table.id, Extension(table.format)>>

NoFiles == [csv |-> << >>, excel |-> << >>, json |-> << >>, html |-> << >>]

RECURSIVE SaveWalk(_, _, _, _)
\* the loop of save_tables_to_files; fails are the ids of the tables whose
\* write raises.  The excel branch catches it and goes on; any other
\* branch leaves the loop for the outer handler, which returns empty lists.
SaveWalk(tables, fails, saved_files, disk) ==
  IF tables = << >> THEN [saved_files |-> saved_files, disk |-> disk]
  ELSE LET table == Head(tables)
           filename == FileName(table)
       IN  IF table.id \in fails
             THEN IF table.format = "excel"
                    THEN SaveWalk(Tail(tables), fails, saved_files, disk)
                    ELSE [saved_files |-> NoFiles, disk |-> disk]
             ELSE SaveWalk(Tail(tables), fails,
                           [saved_files EXCEPT ![table.format] = Append(@, filename)],
                           disk \cup {filename})

\* save_tables_to_files(tables_result, output_dir)
save_tables_to_files(tables, fails) == SaveWalk(tables, fails, NoFiles, {})

MaxCell == 2
MaxTables == 3

CellChars == {"a", ",", Q, "\n", "\r", "&", "<", ">", "'"}

\* cell texts: every text of up to MaxCell characters, and one that already
\* holds an entity
Cells == UNION {[1..n -> CellChars] : n \in 0..MaxCell} \cup {<<"&", "a", "m", "p", ";">>}

\* a grid of a header row and two rows
SquareGrid ==
  Grid(<< << <<"a">>, <<"<", "a", ">">> >>,
          << <<"a", ",", "a">>, <<Q, "a", Q>> >>,
          << <<"&">>, <<"a", "\n", "a">> >> >>)

\* a grid whose rows are of different widths, one of them empty
RaggedGrid ==
  Grid(<< << <<"a">>, <<",">> >>, << <<Q>> >>, << >>,
          << <<"\n">>, << >>, <<"'", "&">> >> >>)

Datas == {NoData, Grid(<< >>), SquareGrid, RaggedGrid}

TablesDatas ==
  {<< >>}
    \cup {<<TableInfo(1, Grid(<< <<c>> >>))>> : c \in Cells}
    \cup {<<TableInfo(1, Grid(<< <<c, << >> >>, << << >>, c>> >>))>> :
            c \in {<< >>, <<"a">>, <<",">>, <<Q>>}}
    \cup {[i \in 1..MaxTables |-> TableInfo(i, d[i])] : d \in [1..MaxTables -> Datas]}

ExportFormats == {"json", "csv", "excel", "html", "xml"}

\* the tables of a document wait for the export
InitExport ==
  /\ store = << >>
  /\ boot = Boot(TRUE, "ok")
  /\ cache_enabled = CacheService_init(boot)
  /\ RateLimiter_init
  /\ AGNO_AVAILABLE = TRUE
  /\ proc = [c \in AllCallers |-> IdleProc]
  /\ call \in {Call("tables", [tables_data |-> t, export_format |-> f], "none", PyNone,
                    NoError, "none") : t \in TablesDatas, f \in ExportFormats}

\* processed_tables = self._process_tables_for_export(tables_data, export_format)
Export ==
  /\ call.op = "tables"
  /\ call' = Call("_process_tables_for_export", call.arg, "return",
                  _process_tables_for_export(call.arg.tables_data, call.arg.export_format),
                  NoError, "none")
  /\ UNCHANGED <<store, fixed, proc>>

\* save_tables_to_files on what the export returned
Save(fails) ==
  /\ call.op = "_process_tables_for_export"
  /\ call' = Call("save_tables_to_files",
                  [tables |-> call.ret, fails |-> fails,
                   export_format |-> call.arg.export_format], "return",
                  save_tables_to_files(call.ret, fails), NoError, "none")
  /\ UNCHANGED <<store, fixed, proc>>

NextExport ==
  \/ Export
  \/ \E fails \in SUBSET (1..MaxTables) : Save(fails)

SpecExport == InitExport /\ [][NextExport]_vars

(***************************************************************************)
(* RateLimiter (api/middlewares.py)                                        *)
(***************************************************************************)
\* the limits of the settings, which the environment may override (the
\* defaults are 5, 50 and 200); small ones here, in the same order
rate_limit_per_minute == 2
rate_limit_per_hour == 3
rate_limit_per_day == 4

\* the calls of is_allowed one behaviour makes
MaxCalls == 6

\* the windows written out in is_allowed and in _cleanup_old_requests
window_seconds(period) ==
  CASE period = "minute" -> 60
    [] period = "hour" -> 3600
    [] period = "day" -> 86400

limit(period) ==
  CASE period = "minute" -> rate_limit_per_minute
    [] period = "hour" -> rate_limit_per_hour
    [] period = "day" -> rate_limit_per_day

\* while queue and queue[0] < cutoff: queue.popleft()
RECURSIVE Popleft(_, _)
Popleft(queue, cutoff) ==
  IF queue # << >> /\ Head(queue) < cutoff
  THEN Popleft(Tail(queue), cutoff)
  ELSE queue

_cleanup_old_requests(user_requests, t) ==
  [period \in Periods |-> Popleft(user_requests[period], t - window_seconds(period))]

\* the same check turned away only once the limit is passed
Over(request_queue, bound) == Len(request_queue) > bound

\* if len(request_queue) >= limit: return False
Reached(request_queue, bound) == Len(request_queue) >= bound

\* the answer, and the identifier's deques as the call leaves them
is_allowed(user_requests, t) ==
  LET cleaned == _cleanup_old_requests(user_requests, t)
  IN  IF \E period \in Periods : Reached(cleaned[period], limit(period))
      THEN [allowed |-> FALSE, user_requests |-> cleaned]
      ELSE [allowed |-> TRUE,
            user_requests |-> [period \in Periods |-> Append(cleaned[period], t)]]

\* the instants the clock is read at: the start, and each window's cutoff
\* and the second after it
Times == {0} \cup {window_seconds(period) + d : period \in Periods, d \in {0, 1}}

\* time passes; the clock never steps back
Tick(t) ==
  /\ t > now
  /\ now' = t
  /\ UNCHANGED <<store, proc, call, started, requests, history>>

\* rate_limit_middleware asks for the client of the request
IsAllowed(identifier) ==
  /\ Len(history) < MaxCalls
  /\ LET answer == is_allowed(requests[identifier], now)
     IN  /\ requests' = [requests EXCEPT ![identifier] = answer.user_requests]
         /\ history' = Append(history, [identifier |-> identifier, timestamp |-> now,
                                        allowed |-> answer.allowed])
         /\ call' = Call("is_allowed", identifier, "return", answer.allowed, NoError, "none")
  /\ UNCHANGED <<store, proc, started, now>>

InitLimiter ==
  /\ store = << >>
  /\ boot = Boot(TRUE, "ok")
  /\ cache_enabled = CacheService_init(boot)
  /\ AGNO_AVAILABLE = TRUE
  /\ proc = [c \in AllCallers |-> IdleProc]
  /\ call = NoCall
  /\ RateLimiter_init

NextLimiter ==
  \/ \E t \in Times : Tick(t)
  \/ \E identifier \in Identifiers : IsAllowed(identifier)

SpecLimiter == InitLimiter /\ [][NextLimiter]_vars

(***************************************************************************)
(* Properties                                                              *)
(***************************************************************************)
Tiers == <<"json_extraction", "simple", "fallback">>
Last(seq) == seq[Len(seq)]
Busy(p) == p.pc \in {"attempt", "store"}
\* the pass that just ended was attempt n of the loop
LastAttempt(p) == Len(p.outcomes) - 1
\* the answer of the last pass decoded to an object with 'trades' and 'fees'
SaidResult(p) ==
  /\ p.said # "none"
  /\ ParseAt[p.said].ok
  /\ ParseAt[p.said].val.t = "obj"
  /\ HasKey(ParseAt[p.said].val, "trades")
  /\ HasKey(ParseAt[p.said].val, "fees")
SaidTrades(p) == Get(ParseAt[p.said].val, "trades")
SaidFees(p) == Get(ParseAt[p.said].val, "fees")
BothEmpty(p) == SaidTrades(p) = JArr(<< >>) /\ SaidFees(p) = JArr(<< >>)

\* C1: a run of the loop invokes the agent at most 3 times, attempt n with
\* the tier-n prompt, and every attempt but the last one ended in RETRY
C1_TieredAttempts ==
  \A c \in AllCallers :
    LET p == proc[c] IN
    /\ Len(p.prompts) <= 3
    /\ Len(p.outcomes) = Len(p.prompts)
    /\ \A n \in 1 .. Len(p.prompts) : p.prompts[n] = Tiers[n]
    /\ \A n \in 1 .. Len(p.outcomes) - 1 : p.outcomes[n] = "RETRY"
    /\ p.pc = "attempt" =>
         /\ p.attempt = Len(p.prompts)
         /\ \A n \in 1 .. Len(p.outcomes) : p.outcomes[n] = "RETRY"
    /\ p.origin = "agent" => Last(p.outcomes) = "SUCCESS"

C1_Witness ==
  /\ proc["c1"].pc = "returned"
  /\ proc["c1"].prompts = Tiers
  /\ proc["c1"].outcomes = <<"RETRY", "RETRY", "SUCCESS">>

ExpectedTrades(path) ==
  IF FullPdfContent(FileAt(path)) # << >>
    THEN Count(FullPdfContent(FileAt(path)), <<"1-BOVESPA">>) ELSE 1
ExpectedAt == [path \in {f.path : f \in Files} |-> ExpectedTrades(path)] @@ << >>
MarkedAt ==
  [id \in {a.id : a \in Answers} |->
     Contains(AnswerOf(id).content, MarkerTrades)
       /\ Contains(AnswerOf(id).content, MarkerFees)] @@ << >>
Sized(p) == HasLen(SaidTrades(p)) /\ HasLen(SaidFees(p))

C3_DiagnosisBeforeFailure ==
  \A c \in AllCallers :
    LET p == proc[c] IN
    (p.pc = "raised" /\ Len(p.outcomes) = 3 /\ Last(p.outcomes) = "FAILED") =>
      p.error.type = "ConversionError" /\ p.diagnosed

\* C4: free text without recoverable JSON on all three tiers ends in a
\* ConversionError after exactly 3 invocations, carrying the parse error of
\* the third answer
C4_ThreeUnparseable ==
  \A c \in AllCallers :
    LET p == proc[c] IN
    /\ (p.heard # << >> /\ Len(p.heard) < 3 /\ \A n \in 1 .. Len(p.heard) : p.heard[n] = "free_text")
         => p.pc = "attempt"
    /\ p.heard = <<"free_text", "free_text", "free_text">> =>
         /\ p.pc = "raised"
         /\ Len(p.prompts) = 3
         /\ p.error.type = "ConversionError"
         /\ p.error.cause.attempt = 2
         /\ p.error.cause.type = ParseAt[p.said].type
         /\ p.error.cause.msg = ParseAt[p.said].msg

C4_Witness ==
  /\ proc["c1"].heard = <<"free_text", "free_text", "free_text">>
  /\ proc["c1"].said = "chatter"
  /\ proc["c1"].pc = "raised"

\* C5: the empty structure on tiers 0 and 1 and one valid trade and fee on
\* tier 2 make extract return the tier-2 result after exactly 3 invocations;
\* the empty answers are neither returned nor cached
C5_EmptyEmptyValid ==
  \A c \in AllCallers :
    LET p == proc[c] IN
    /\ p.heard \in {<<"empty">>, <<"empty", "empty">>} => p.pc = "attempt"
    /\ (p.heard = <<"empty", "empty", "json">> /\ p.said = "one") =>
         /\ p.pc \in {"store", "returned"}
         /\ p.result = ParseAt["one"].val
         /\ Len(p.prompts) = 3
         /\ (p.set_ret = "True" /\ p.cache_key \in DOMAIN store) =>
              store[p.cache_key].data = Dumps(ParseAt["one"].val)

C5_Witness ==
  /\ proc["c1"].heard = <<"empty", "empty", "json">>
  /\ proc["c1"].said = "one"
  /\ proc["c1"].pc = "returned"
  /\ proc["c1"].set_ret = "True"
  /\ proc["c1"].cache_key \in DOMAIN store

\* C6: a result the loop accepted that fails the validator makes extract
\* raise ConversionError, with no further invocation and no cache write
C6_InvalidResultIsFatal ==
  \A c \in AllCallers :
    LET p == proc[c] IN
    (p.outcomes # << >> /\ Last(p.outcomes) = "SUCCESS"
       /\ ~_validate_extraction_result(ParseAt[p.said].val)) =>
      /\ p.pc = "raised"
      /\ p.error.type = "ConversionError"
      /\ Len(p.prompts) = Len(p.outcomes)
      /\ p.set_ret = "none"
      /\ p.result = PyNone

C6_Witness ==
  /\ proc["c1"].said = "mixed"
  /\ proc["c1"].outcomes = <<"SUCCESS">>
  /\ proc["c1"].pc = "raised"
  /\ proc["c1"].use_cache
  /\ proc["c1"].cache_key # NoKey

\* the text of a cache entry decodes to a value that passes the validator
ValidEntry(r) == r.ok /\ _validate_extraction_result(r.val)

\* C7: every value extract returns, fresh or cached, and every value in the
\* cache under an extraction key passes the full validator
C7_OnlyValidatedValues ==
  /\ \A c \in AllCallers :
       proc[c].pc \in {"store", "returned"} => _validate_extraction_result(proc[c].result)
  /\ \A k \in DOMAIN store : ValidEntry(Loads(store[k].data))

C7_Witness ==
  /\ proc["c1"].pc = "returned"
  /\ proc["c1"].origin = "cache"
  /\ proc["c1"].cache_key \in DOMAIN store

\* a call of caller c was entered in this step
Called(c) == ~Busy(proc[c]) /\ proc'[c] # proc[c]
\* caller c's last call stored its result, and now calls for the same document
CalledAgain(c) ==
  /\ Called(c)
  /\ proc[c].pc = "returned"
  /\ proc[c].set_ret = "True"
  /\ proc'[c].file = proc[c].file
ServedFromCache(c) ==
  /\ proc'[c].pc = "returned"
  /\ proc'[c].origin = "cache"
  /\ proc'[c].result = proc[c].result
  /\ proc'[c].prompts = << >>
  /\ proc'[c].runs = proc[c].runs

\* C8 as stated: after a call that succeeded and stored its result, a later
\* call for the same document returns the cached result without the agent
C8_LaterCallServedFromCache ==
  [][\A c \in AllCallers : CalledAgain(c) => ServedFromCache(c)]_vars

\* C8 amended: after a call that succeeded and stored its result, a later
\* call for the same document that asks for the cache, while the entry is in
\* the store and the store can be read, returns the cached result without
\* invoking the agent
C8_LaterCallServedWhileStored ==
  [][\A c \in AllCallers :
       (CalledAgain(c) /\ proc'[c].lookup = "ok" /\ proc[c].cache_key \in DOMAIN store)
         => ServedFromCache(c)]_vars

C8_Witness ==
  /\ proc["c1"].pc = "returned"
  /\ proc["c1"].origin = "cache"
  /\ proc["c1"].lookup = "ok"
  /\ proc["c1"].prompts = << >>
  /\ proc["c1"].runs > 0

\* C9 as stated: without the agent, extract returns no result that was not
\* derived from an agent response and caches nothing
C9_NoAgentNoResult ==
  ~AGNO_AVAILABLE =>
    \A c \in AllCallers :
      /\ proc[c].origin # "simulation"
      /\ proc[c].set_ret = "none"
      /\ proc[c].pc \notin {"store", "returned"} \/ proc[c].origin = "cache"

\* both callers have returned what their own loops accepted for one key
BothExtracted ==
  /\ \A c \in AllCallers : proc[c].pc = "returned" /\ proc[c].origin = "agent"
  /\ proc["c1"].cache_key = proc["c2"].cache_key
  /\ proc["c1"].cache_key # NoKey

\* C10: two calls for one fingerprint that both miss the cache each run their
\* own loop of at most 3 invocations and return their own validated result,
\* and the entry of the fingerprint is one of the two results
C10_LastWriterWins ==
  /\ \A c \in AllCallers : Len(proc[c].prompts) <= 3
  /\ \A c \in AllCallers :
       proc[c].origin = "agent" =>
         /\ proc[c].result = ParseAt[proc[c].said].val
         /\ _validate_extraction_result(proc[c].result)
  /\ BothExtracted =>
       LET key == proc["c1"].cache_key IN
       /\ (\E c \in AllCallers : proc[c].set_ret = "True") => key \in DOMAIN store
       /\ key \in DOMAIN store =>
            /\ store[key].data \in {Dumps(proc[c].result) : c \in AllCallers}
            /\ ValidEntry(Loads(store[key].data))

C10_Witness ==
  /\ BothExtracted
  /\ proc["c1"].result # proc["c2"].result
  /\ proc["c1"].set_ret = "True"
  /\ proc["c2"].set_ret = "True"
  /\ store[proc["c1"].cache_key].data = Dumps(proc["c1"].result)

\* the document is one validate_pdf turns away
Invalid(f) ==
  \/ ~f.isfile
  \/ LowerLexeme(Last(f.path)) # ".pdf"
  \/ f.size = 0
  \/ f.size > 16 * 1024 * 1024
  \/ f.bytes = << >>
  \/ Head(f.bytes) # "%PDF-"
InvalidAt == [path \in {f.path : f \in Files} |-> Invalid(FileAt(path))] @@ << >>

\* C11: a document that fails validation makes extract raise ValidationError
\* with no agent invocation and no cache read or write, and no other document does
C11_InvalidDocumentStopsAtOnce ==
  \A c \in AllCallers :
    LET p == proc[c] IN
    p.pc # "idle" =>
      /\ InvalidAt[p.file] <=> (p.pc = "raised" /\ p.error.type = "ValidationError")
      /\ InvalidAt[p.file] =>
           /\ p.prompts = << >>
           /\ p.lookup = "none"
           /\ p.cache_key = NoKey
           /\ p.set_ret = "none"
           /\ p.result = PyNone

C11_Witness ==
  /\ proc["c1"].file = HugePdf.path
  /\ proc["c1"].use_cache
  /\ proc["c1"].pc = "raised"
  /\ proc["c1"].error.type = "ValidationError"
  /\ store # << >>

\* C12: on every entry point (extract_trades_and_fees, extract_tables_advanced,
\* convert_pdf_to_markdown, convert_pdf_adaptive) a call with an invalid
\* document ends in a ValidationError, never in a ConversionError.
C12_ValidationErrorSurfaces ==
  \A c \in AllCallers :
    LET p == proc[c] IN
    (p.entry \in Entries /\ InvalidAt[p.file]) =>
      (p.pc = "raised" /\ p.error.type = "ValidationError")

\* C13: a cache failure during extract_trades_and_fees never changes the
\* outcome: after a failed read (the store or the hashing raised) nothing is
\* served from the cache and the extraction runs as on a miss; after a failed
\* write (set returned False or raised) the validated result is still
\* returned; the only errors a caller sees are ValidationError and
\* ConversionError of the document and of the extraction.
FailedRead(p) == p.lookup \in {"get_error", "hash_error"}
FailedWrite(p) == p.set_ret \in {"False", "AttributeError"}

C13_CacheFailureChangesNothing ==
  \A c \in AllCallers :
    LET p == proc[c] IN
    /\ p.error.type \in {"none", "ValidationError", "ConversionError"}
    /\ p.pc = "raised" =>
         /\ p.error.type = "ConversionError" => p.error.cause.type # "AttributeError"
         /\ p.set_ret = "none"
    /\ FailedRead(p) =>
         /\ p.origin # "cache"
         /\ p.pc = "returned" => p.origin = (IF AGNO_AVAILABLE THEN "agent" ELSE "simulation")
         /\ (AGNO_AVAILABLE /\ p.pc \in {"store", "returned", "raised"}) => p.prompts # << >>
    /\ FailedWrite(p) =>
         /\ p.pc = "returned"
         /\ p.origin \in {"agent", "simulation"}
         /\ p.origin = "agent" => p.result = ParseAt[p.said].val
         /\ p.origin = "simulation" => p.result = _simulate_agno_extraction
         /\ _validate_extraction_result(p.result)

C13_Witness ==
  /\ proc["c1"].lookup = "get_error"
  /\ proc["c1"].set_ret = "AttributeError"
  /\ proc["c1"].pc = "returned"
  /\ proc["c1"].origin = "agent"
  /\ proc["c1"].cache_key \notin DOMAIN store

\* C14: when the store did not answer the ping of the constructor, the
\* constructor ends without raising and leaves the cache disabled for good:
\* whatever get, set, delete and clear_all calls follow, every get returns
\* None, every set returns False, no call reaches the store and the cache is
\* never enabled again.
UnreachableAtStart == boot.cache_enabled /\ boot.ping # "ok"

C14_UnreachableStoreDisablesCache ==
  UnreachableAtStart =>
    /\ ~cache_enabled
    /\ store = << >>
    /\ call.kind # "raise"
    /\ call.origin # "redis"
    /\ call.op = "get" => call.ret = PyNone
    /\ call.op \in {"set", "delete", "clear_all"} => call.ret = "False"

C14_Witness ==
  /\ boot = Boot(TRUE, "ConnectionError")
  /\ call.op = "set"
  /\ call.ret = "False"
  /\ call.arg \in CacheKeys

\* C15: CacheService.get and CacheService.set never raise: whatever the store
\* does on an enabled cache, the call returns (None from get, False from set).
C15_GetAndSetNeverRaise ==
  call.op \in {"get", "set"} => call.kind = "return"

\* C16: an extraction result in the cache is removed or altered only by the
\* expiry of its TTL or by a set for its own key: in every step either the
\* entries under agno_extraction: stay as they are, or the step is the
\* expiry of the entry or the cache write of a call for that key.
ExtractionKeys(st) == {k \in DOMAIN st : k[1] = "agno_extraction:"}
Touched(k) == k \notin DOMAIN store' \/ store'[k] # store[k]
Overwritten(k) ==
  \E c \in AllCallers, how \in Setex : proc[c].cache_key = k /\ CacheStore(c, how)

C16_OnlyExpiryRemovesEntries ==
  [][\A k \in ExtractionKeys(store) : Touched(k) => (Expire(k) \/ Overwritten(k))]_vars

\* C17: an exception of agent.run on attempt n consumes the attempt: for
\* n < 2 the pass ends in RETRY and the next prompt is tier n+1, for n = 2
\* the call raises ConversionError carrying the exception; an agent exception
\* never leaves extract_trades_and_fees as another type of error.
AgentRaised(p, n) == n <= Len(p.heard) /\ p.heard[n] = "raise"

C17_AgentExceptionConsumesAttempt ==
  \A c \in AllCallers :
    LET p == proc[c] IN
    /\ \A n \in 1 .. 2 :
         AgentRaised(p, n) =>
           /\ p.outcomes[n] = "RETRY"
           /\ Len(p.heard) = n => (p.pc = "attempt" /\ p.attempt = n)
           /\ Len(p.prompts) > n => p.prompts[n + 1] = Tiers[n + 1]
    /\ AgentRaised(p, 3) =>
         /\ p.outcomes[3] = "FAILED"
         /\ p.pc = "raised"
         /\ p.error.type = "ConversionError"
         /\ p.error.cause.type \in {"Exception", "ValueError"}
         /\ p.error.cause.msg = <<"agent.run failed">>
         /\ p.error.cause.attempt = 2
    /\ (p.heard # << >> /\ Last(p.heard) = "raise" /\ p.pc = "raised") =>
         p.error.type = "ConversionError"

C17_Witness ==
  /\ proc["c1"].heard = <<"raise", "json", "raise">>
  /\ proc["c1"].said = "raise"
  /\ proc["c1"].pc = "raised"
  /\ proc["c1"].error.cause.type = "Exception"

\* C18: the validator accepts a value if and only if it is an object whose
\* trades and fees are sequences, every trade has the nine required fields,
\* operationType in {C, V}, market in {BOVESPA, BMF}, a positive integer
\* quantity and positive numbers for price and totalValue, and every fee has
\* orderNumber and a non-negative number for totalFees; otherwise it raises.
IsInteger(v) == v.t = "int"
IsNumeric(v) == v.t \in {"int", "float"}

WellFormedTrade(t) ==
  /\ t.t = "obj"
  /\ \A i \in 1..Len(TradeRequired) : HasKey(t, TradeRequired[i])
  /\ Get(t, "operationType") \in {JStr(<<"C">>), JStr(<<"V">>)}
  /\ Get(t, "market") \in {JStr(<<"BOVESPA">>), JStr(<<"BMF">>)}
  /\ IsInteger(Get(t, "quantity")) /\ Get(t, "quantity").n > 0
  /\ IsNumeric(Get(t, "price")) /\ Get(t, "price").n > 0
  /\ IsNumeric(Get(t, "totalValue")) /\ Get(t, "totalValue").n > 0

WellFormedFee(f) ==
  /\ f.t = "obj"
  /\ HasKey(f, "orderNumber") /\ HasKey(f, "totalFees")
  /\ IsNumeric(Get(f, "totalFees")) /\ Get(f, "totalFees").n >= 0

WellFormed(r) ==
  /\ r.t = "obj"
  /\ HasKey(r, "trades") /\ HasKey(r, "fees")
  /\ Get(r, "trades").t = "arr" /\ Get(r, "fees").t = "arr"
  /\ \A i \in 1..Len(Get(r, "trades").items) : WellFormedTrade(Get(r, "trades").items[i])
  /\ \A i \in 1..Len(Get(r, "fees").items) : WellFormedFee(Get(r, "fees").items[i])

C18_ValidatorAcceptsExactlyWellFormed ==
  call.op = "_validate_extraction_result" =>
    (call.kind = "return" <=> WellFormed(call.arg))

\* C19: for every valid JSON object text J and each of the four shapes (J
\* alone, J in a fence tagged json, J in an untagged fence, J between noise
\* without braces), the parser returns a string that parses to the same
\* object as J.
C19_RecoveryKeepsTheObject ==
  (call.op = "_extract_json_from_response" /\ call.arg.shape \in FourShapes) =>
    /\ call.kind = "return"
    /\ json_loads(call.ret) = json_loads(call.arg.j)

\* C20: for every input text, the parser either returns a string that is
\* syntactically valid JSON or fails with the parse error (ValueError); it
\* never returns a string that is not valid JSON.
C20_ReturnsValidJsonOrFails ==
  call.op = "_extract_json_from_response" =>
    \/ call.kind = "raise" /\ call.error.type = "ValueError"
    \/ call.kind = "return" /\ json_loads(call.ret).ok

\* the 0-based places of the boundary marker in a text, whatever its case
MarkerPlaces(text) == {i \in 0..(Len(text) - 1) : Lower(text)[i + 1] = "nota de negociacao"}

\* the k-th smallest member of a set of numbers
Nth(S, k) == CHOOSE i \in S : Cardinality({j \in S : j < i}) = k - 1

\* a text without its white space
Inked(text) == SelectSeq(text, LAMBDA w : w \notin Whitespace)

RECURSIVE SpansJoined(_)
SpansJoined(pages) ==
  IF pages = << >> THEN << >> ELSE Head(pages)[2] \o SpansJoined(Tail(pages))

\* C21: for a text without the boundary marker the segmenter returns exactly
\* one pair, with index 1 and a span equal to the input with leading and
\* trailing white space trimmed.
C21_NoMarkerOneTrimmedSpan ==
  (call.op = "_split_by_nota_negociacao" /\ MarkerPlaces(call.arg) = {}) =>
    call.ret = << <<1, Strip(call.arg)>> >>

\* C22: for a text with k >= 1 markers the segmenter returns exactly k pairs
\* numbered 1..k in order; span i is the trimmed text from marker i up to just
\* before marker i+1 (the end of the text for i = k), so the spans do not
\* overlap, cover everything from the first marker to the end and hold
\* nothing that precedes the first marker.
C22_OneSpanPerMarker ==
  (call.op = "_split_by_nota_negociacao" /\ MarkerPlaces(call.arg) # {}) =>
    LET places == MarkerPlaces(call.arg)
        k == Cardinality(places)
        from(i) == Nth(places, i)
        upto(i) == IF i = k THEN Len(call.arg) ELSE Nth(places, i + 1)
    IN  /\ Len(call.ret) = k
        /\ \A i \in 1..k :
             /\ call.ret[i][1] = i
             /\ call.ret[i][2] = Strip(Slice(call.arg, from(i), upto(i)))
        /\ Inked(SpansJoined(call.ret)) = Inked(Slice(call.arg, from(1), Len(call.arg)))

\* two markers in different case, text before the first, white space between
C22_Witness ==
  /\ call.op = "_split_by_nota_negociacao"
  /\ call.arg = <<"SUZANO", "NOTA DE NEGOCIACAO", "\n", "Nota de Negociacao">>
  /\ call.ret = << <<1, <<"NOTA DE NEGOCIACAO">> >>, <<2, <<"Nota de Negociacao">> >> >>

(***************************************************************************)
(* Standard CSV parsing (csv.reader, dialect excel) of a text: the rows,   *)
(* or a failure.                                                           *)
(***************************************************************************)
Newlines == {"\r", "\n"}

\* the reader between two characters: where it is, the field and the row it
\* is reading, and the rows it has read
CsvAt(state, field, row, rows) ==
  [ok |-> TRUE, state |-> state, field |-> field, row |-> row, rows |-> rows]

\* one character read; a record starts with the field its first character starts
CsvStep(m, c) ==
  LET state == IF m.state = "START_RECORD" /\ c \notin Newlines
               THEN "START_FIELD" ELSE m.state
      field == m.field
      row == m.row
      rows == m.rows
  IN
    CASE ~m.ok -> m
      [] state = "START_RECORD" ->
           IF c = "\n" THEN CsvAt("START_RECORD", << >>, << >>, Append(rows, << >>))
           ELSE CsvAt("EAT_CRNL", << >>, << >>, rows)
      [] state = "START_FIELD" ->
           IF c = "\n" THEN CsvAt("START_RECORD", << >>, << >>, Append(rows, Append(row, << >>)))
           ELSE IF c = "\r" THEN CsvAt("EAT_CRNL", << >>, Append(row, << >>), rows)
           ELSE IF c = Q THEN CsvAt("IN_QUOTED_FIELD", << >>, row, rows)
           ELSE IF c = "," THEN CsvAt("START_FIELD", << >>, Append(row, << >>), rows)
           ELSE CsvAt("IN_FIELD", <<c>>, row, rows)
      [] state = "IN_FIELD" ->
           IF c = "\n" THEN CsvAt("START_RECORD", << >>, << >>, Append(rows, Append(row, field)))
           ELSE IF c = "\r" THEN CsvAt("EAT_CRNL", << >>, Append(row, field), rows)
           ELSE IF c = "," THEN CsvAt("START_FIELD", << >>, Append(row, field), rows)
           ELSE CsvAt("IN_FIELD", Append(field, c), row, rows)
      [] state = "IN_QUOTED_FIELD" ->
           IF c = Q THEN CsvAt("QUOTE_IN_QUOTED_FIELD", field, row, rows)
           ELSE CsvAt("IN_QUOTED_FIELD", Append(field, c), row, rows)
      [] state = "QUOTE_IN_QUOTED_FIELD" ->
           IF c = Q THEN CsvAt("IN_QUOTED_FIELD", Append(field, Q), row, rows)
           ELSE IF c = "," THEN CsvAt("START_FIELD", << >>, Append(row, field), rows)
           ELSE IF c = "\n" THEN CsvAt("START_RECORD", << >>, << >>,
                                       Append(rows, Append(row, field)))
           ELSE IF c = "\r" THEN CsvAt("EAT_CRNL", << >>, Append(row, field), rows)
           ELSE CsvAt("IN_FIELD", Append(field, c), row, rows)
      [] state = "EAT_CRNL" ->
           IF c = "\n" THEN CsvAt("START_RECORD", << >>, << >>, Append(rows, row))
           ELSE IF c = "\r" THEN CsvAt("EAT_CRNL", << >>, row, rows)
           ELSE [m EXCEPT !.ok = FALSE]

\* the characters lo..hi of s read from m on: the first half, and when that
\* is read, the second
RECURSIVE CsvRead(_, _, _, _)
CsvRead(s, lo, hi, m) ==
  IF lo > hi THEN m
  ELSE IF lo = hi THEN CsvStep(m, s[lo])
  ELSE LET mid == (lo + hi) \div 2
           half == CsvRead(s, lo, mid, m)
       IN  IF half.ok THEN CsvRead(s, mid + 1, hi, half) ELSE half

\* list(csv.reader(io.StringIO(text)))
CsvReader(text) ==
  LET m == CsvRead(text, 1, Len(text), CsvAt("START_RECORD", << >>, << >>, << >>))
  IN  IF ~m.ok THEN [ok |-> FALSE]
      ELSE [ok |-> TRUE,
            rows |-> CASE m.state = "START_RECORD" -> m.rows
                       [] m.state = "EAT_CRNL" -> Append(m.rows, m.row)
                       [] OTHER -> Append(m.rows, Append(m.row, m.field))]

\* the grid of the table a processed table was made from
GridOf(tables_data, id) ==
  (CHOOSE t \in {tables_data[i] : i \in 1..Len(tables_data)} : t.id = id).data.rows

\* C23: the json export returns the grid unchanged, tagged format=json, and
\* the csv export is a string that standard CSV parsing turns back into
\* exactly the same grid, ragged grids and cells holding commas, double
\* quotes or line breaks included.
C23_JsonAndCsvKeepTheGrid ==
  call.op = "_process_tables_for_export" =>
    \A i \in 1..Len(call.ret) :
      LET grid == GridOf(call.arg.tables_data, call.ret[i].id) IN
      /\ call.arg.export_format = "json" =>
           call.ret[i].format = "json" /\ call.ret[i].data = grid
      /\ call.arg.export_format = "csv" =>
           /\ call.ret[i].format = "csv"
           /\ CsvReader(call.ret[i].data) = [ok |-> TRUE, rows |-> grid]

\* a square grid with commas, quotes and a line break in its cells and a
\* ragged grid, exported as csv
C23_Witness ==
  /\ call.op = "_process_tables_for_export"
  /\ call.arg.export_format = "csv"
  /\ call.arg.tables_data =
       <<TableInfo(1, SquareGrid), TableInfo(2, RaggedGrid), TableInfo(3, NoData)>>
  /\ Len(call.ret) = 2
  /\ CsvReader(call.ret[2].data).rows = RaggedGrid.rows
  /\ call.ret[1].data # CsvBare(SquareGrid.rows)

(***************************************************************************)
(* Reading an HTML table back: the cells between the tags, as written.     *)
(***************************************************************************)
\* what a written cell may hold: the cell characters and those of the entities
CellText ==
  CellChars \cup {"a", "m", "p", ";", "l", "t", "g", "q", "u", "o", "#", "x", "2", "7"}

\* the reader between two lexemes: where it is, the cell and the row it is
\* reading, the header row and the body rows it has read
HtmlAt(state, cell, row, head, body) ==
  [ok |-> TRUE, state |-> state, cell |-> cell, row |-> row, head |-> head, body |-> body]

\* one lexeme read
HtmlStep(m, w) ==
  LET state == m.state
      cell == m.cell
      row == m.row
      head == m.head
      body == m.body
      bad == [m EXCEPT !.ok = FALSE]
  IN
    CASE ~m.ok -> m
      [] state = "start" ->
           IF w = "<table border='1'>" THEN HtmlAt("table", << >>, << >>, head, body) ELSE bad
      [] state = "table" ->
           IF w = "<thead><tr>" THEN HtmlAt("headrow", << >>, << >>, head, body) ELSE bad
      [] state = "headrow" ->
           IF w = "<th>" THEN HtmlAt("th", << >>, row, head, body)
           ELSE IF w = "</tr></thead>" THEN HtmlAt("afterhead", << >>, << >>, row, body)
           ELSE bad
      [] state = "th" ->
           IF w = "</th>" THEN HtmlAt("headrow", << >>, Append(row, cell), head, body)
           ELSE IF w \in CellText THEN HtmlAt("th", Append(cell, w), row, head, body)
           ELSE bad
      [] state = "afterhead" ->
           IF w = "<tbody>" THEN HtmlAt("tbody", << >>, << >>, head, body)
           ELSE IF w = "</table>" THEN HtmlAt("end", << >>, << >>, head, body)
           ELSE bad
      [] state = "tbody" ->
           IF w = "<tr>" THEN HtmlAt("row", << >>, << >>, head, body)
           ELSE IF w = "</tbody>" THEN HtmlAt("aftertbody", << >>, << >>, head, body)
           ELSE bad
      [] state = "row" ->
           IF w = "<td>" THEN HtmlAt("td", << >>, row, head, body)
           ELSE IF w = "</tr>" THEN HtmlAt("tbody", << >>, << >>, head, Append(body, row))
           ELSE bad
      [] state = "td" ->
           IF w = "</td>" THEN HtmlAt("row", << >>, Append(row, cell), head, body)
           ELSE IF w \in CellText THEN HtmlAt("td", Append(cell, w), row, head, body)
           ELSE bad
      [] state = "aftertbody" ->
           IF w = "</table>" THEN HtmlAt("end", << >>, << >>, head, body) ELSE bad
      [] OTHER -> bad

\* the lexemes lo..hi of h read from m on: the first half, and when that is
\* read, the second
RECURSIVE HtmlRead(_, _, _, _)
HtmlRead(h, lo, hi, m) ==
  IF lo > hi THEN m
  ELSE IF lo = hi THEN HtmlStep(m, h[lo])
  ELSE LET mid == (lo + hi) \div 2
           half == HtmlRead(h, lo, mid, m)
       IN  IF half.ok THEN HtmlRead(h, mid + 1, hi, half) ELSE half

HtmlReader(h) ==
  LET m == HtmlRead(h, 1, Len(h), HtmlAt("start", << >>, << >>, << >>, << >>))
  IN  [ok |-> m.ok /\ m.state = "end", head |-> m.head, body |-> m.body]

\* the five entities and the characters they stand for
Entities ==
  {[text |-> <<"&", "a", "m", "p", ";">>, char |-> "&"],
   [text |-> <<"&", "l", "t", ";">>, char |-> "<"],
   [text |-> <<"&", "g", "t", ";">>, char |-> ">"],
   [text |-> <<"&", "q", "u", "o", "t", ";">>, char |-> Q],
   [text |-> <<"&", "#", "x", "2", "7", ";">>, char |-> "'"]}

RECURSIVE Unescape(_)
\* html.unescape: every entity read once, from the left
Unescape(text) ==
  IF text = << >> THEN << >>
  ELSE IF \E e \in Entities : StartsWith(text, e.text)
    THEN LET e == CHOOSE x \in Entities : StartsWith(text, x.text)
         IN  <<e.char>> \o Unescape(Slice(text, Len(e.text), Len(text)))
    ELSE <<Head(text)>> \o Unescape(Tail(text))

UnescapeRow(row) == [j \in 1..Len(row) |-> Unescape(row[j])]
UnescapeRows(rows) == [i \in 1..Len(rows) |-> UnescapeRow(rows[i])]

\* the written cell holds no markup character, and as many &amp; as the
\* cell text holds &
CleanCell(written, cell) ==
  /\ \A i \in 1..Len(written) : written[i] \notin {"<", ">", Q, "'"}
  /\ Count(written, <<"&", "a", "m", "p", ";">>) = Count(cell, <<"&">>)

CleanRow(written, row) ==
  Len(written) = Len(row) /\ \A j \in 1..Len(row) : CleanCell(written[j], row[j])

\* C24: the html export renders row 0 as the single header row in <thead>
\* and rows 1.. in order in <tbody>; every cell is escaped for & < > " ' so
\* that the written cell holds none of < > " ', each & of the cell text
\* appears as &amp; exactly once, and unescaping gives the cell text back.
C24_HtmlHeadBodyAndEscaping ==
  (call.op = "_process_tables_for_export" /\ call.arg.export_format = "html") =>
    \A i \in 1..Len(call.ret) :
      LET grid == GridOf(call.arg.tables_data, call.ret[i].id)
          page == HtmlReader(call.ret[i].data)
      IN  /\ call.ret[i].format = "html"
          /\ page.ok
          /\ UnescapeRow(page.head) = grid[1]
          /\ UnescapeRows(page.body) = Tail(grid)
          /\ CleanRow(page.head, grid[1])
          /\ Len(page.body) = Len(grid) - 1
          /\ \A r \in 1..Len(page.body) : CleanRow(page.body[r], grid[r + 1])

\* a cell that already reads &amp; is written &amp;amp; and read back
C24_Witness ==
  /\ call.op = "_process_tables_for_export"
  /\ call.arg.export_format = "html"
  /\ call.arg.tables_data = <<TableInfo(1, Grid(<< << <<"&", "a", "m", "p", ";">> >> >>))>>
  /\ call.ret[1].data =
       <<"<table border='1'>", "<thead><tr>", "<th>", "&", "a", "m", "p", ";", "a", "m",
         "p", ";", "</th>", "</tr></thead>", "</table>">>

\* the ids of the tables that have at least one row, in document order
IdsWithRows(tables_data) ==
  LET kept == SelectSeq(tables_data,
                        LAMBDA t : t.data.t = "grid" /\ Len(t.data.rows) > 0)
  IN  [i \in 1..Len(kept) |-> kept[i].id]

\* C25: the export emits exactly the tables whose grid is non-empty, in
\* document order, each with its original id; a table whose grid is null or
\* empty is left out; for the excel format headers is row 0 of the grid and
\* rows are the remaining rows.
C25_ExportKeepsTablesWithRows ==
  call.op = "_process_tables_for_export" =>
    /\ [i \in 1..Len(call.ret) |-> call.ret[i].id] = IdsWithRows(call.arg.tables_data)
    /\ call.arg.export_format = "excel" =>
         \A i \in 1..Len(call.ret) :
           LET grid == GridOf(call.arg.tables_data, call.ret[i].id) IN
           /\ call.ret[i].format = "excel"
           /\ call.ret[i].data.headers = grid[1]
           /\ call.ret[i].data.rows = Tail(grid)

\* a table without data, a table with three rows and a table with an empty
\* grid, exported for excel: only the second is emitted, with its id
C25_Witness ==
  /\ call.op = "_process_tables_for_export"
  /\ call.arg.export_format = "excel"
  /\ call.arg.tables_data =
       <<TableInfo(1, NoData), TableInfo(2, SquareGrid), TableInfo(3, Grid(<< >>))>>
  /\ Len(call.ret) = 1
  /\ call.ret[1].id = 2
  /\ Len(call.ret[1].data.rows) = 2

\* the paths a save returned, whatever their format
Listed(saved_files) ==
  UNION {{saved_files[f][i] : i \in 1..Len(saved_files[f])} : f \in DOMAIN saved_files}

\* C26: in save_tables_to_files a failure to persist one table, in any of
\* the four formats, does not abort the others: every other table is still
\* written, and the returned lists hold the path of every table written.
C26_OneFailedSaveSparesTheOthers ==
  call.op = "save_tables_to_files" =>
    /\ \A i \in 1..Len(call.arg.tables) :
         call.arg.tables[i].id \notin call.arg.fails =>
           FileName(call.arg.tables[i]) \in call.ret.disk
    /\ Listed(call.ret.saved_files) = call.ret.disk

\* C27: AgnoService.clear_cache, called while the cache is enabled, removes
\* all and only the entries under agno_extraction: (the entries under
\* pdf_conversion: are left unchanged) and returns True.
C27_AgnoClearCacheRemovesItsEntries ==
  [][(AgnoClearCache /\ cache_enabled) =>
       /\ call'.ret = "True"
       /\ store' = [k \in DOMAIN store \ ExtractionKeys(store) |-> store[k]]]_vars

\* the answer of the last pass failed in the parsing stage: no JSON could be
\* recovered, the recovered string is no JSON, or the decoded value is not
\* an object with both 'trades' and 'fees'
ParsingFailure(p) ==
  /\ p.said # "none"
  /\ \/ KindAt[p.said] \in {"free_text", "bad_json"}
     \/ ParseAt[p.said].ok /\ ~SaidResult(p)

\* C28: on every attempt n the three kinds of parsing-stage failure follow
\* one rule: for n < 2 the loop goes to RETRY and the next prompt is tier
\* n+1, for n = 2 the call is FAILED with a ConversionError.
C28_OneRuleForParsingFailures ==
  \A c \in AllCallers :
    LET p == proc[c] IN
    /\ (p.outcomes # << >> /\ ParsingFailure(p)) =>
         /\ LastAttempt(p) < 2 =>
              Last(p.outcomes) = "RETRY" /\ p.pc = "attempt" /\ p.attempt = LastAttempt(p) + 1
         /\ LastAttempt(p) = 2 =>
              /\ Last(p.outcomes) = "FAILED" /\ p.pc = "raised"
              /\ p.error.type = "ConversionError"
    /\ \A n \in 1 .. Len(p.heard) - 1 :
         p.heard[n] \in {"free_text", "bad_json"} => p.prompts[n + 1] = Tiers[n + 1]

\* a refusal, then broken JSON, then an object without 'fees': three
\* invocations, FAILED on the third
C28_Witness ==
  /\ proc["c1"].heard = <<"free_text", "bad_json", "json">>
  /\ proc["c1"].said = "no_fees"
  /\ proc["c1"].outcomes = <<"RETRY", "RETRY", "FAILED">>
  /\ proc["c1"].error.type = "ConversionError"

\* the third answer of the call decoded to {trades: [], fees: []}
EmptyOnFinalTier(p) == Len(p.heard) = 3 /\ p.heard[3] = "empty"

\* the empty result of the final tier is a success, and is stored when the
\* call has a cache key
EmptyIsSuccess ==
  \A c \in AllCallers :
    LET p == proc[c] IN
    EmptyOnFinalTier(p) =>
      /\ Last(p.outcomes) = "SUCCESS"
      /\ p.pc \in {"store", "returned"}
      /\ p.result = EmptyResult
      /\ (p.use_cache /\ cache_enabled /\ p.cache_key # NoKey)
           => (p.pc = "store" \/ p.set_ret # "none")
      /\ (p.pc = "returned" /\ p.set_ret = "True" /\ p.cache_key \in DOMAIN store)
           => store[p.cache_key].data = Dumps(EmptyResult)

Recorded(identifier, period, t) ==
  {i \in DOMAIN history :
     /\ history[i].identifier = identifier
     /\ history[i].allowed
     /\ history[i].timestamp >= t - window_seconds(period)
     /\ history[i].timestamp <= t}

WithinLimits ==
  \A identifier \in Identifiers, period \in Periods :
    Cardinality(Recorded(identifier, period, now)) <= limit(period)

\* queue is what is left of whole after some popleft()s
LeftOf(queue, whole) ==
  \E k \in 0..Len(whole) : queue = SubSeq(whole, k + 1, Len(whole))

\* C30: for each identifier the allowed requests recorded in the trailing
\* 60 s, 3600 s and 86400 s never exceed rate_limit_per_minute, _per_hour and
\* _per_day; a denied call appends to no deque of its identifier; and a call
\* for one identifier leaves the deques of every other as they were.
C30_WindowsWithinLimits ==
  /\ []WithinLimits
  /\ [][history' # history =>
          LET asked == Last(history')
          IN  /\ ~asked.allowed =>
                   \A period \in Periods :
                     LeftOf(requests'[asked.identifier][period],
                            requests[asked.identifier][period])
              /\ \A other \in Identifiers \ {asked.identifier} :
                   requests'[other] = requests[other]]_vars

\* a client is turned away by the daily limit alone, at an instant at which
\* another client has just been let in
C30_Witness ==
  /\ history # << >>
  /\ LET asked == Last(history)
     IN  /\ ~asked.allowed
         /\ Cardinality(Recorded(asked.identifier, "day", now)) = rate_limit_per_day
         /\ Cardinality(Recorded(asked.identifier, "hour", now)) < rate_limit_per_hour
         /\ Cardinality(Recorded(asked.identifier, "minute", now)) < rate_limit_per_minute
         /\ \E other \in Identifiers \ {asked.identifier} :
              Recorded(other, "minute", now) # {}
====
